---- MODULE Spec2Model ----
(***************************************************************************)
(* A model of the simulation core of the robot simulator: the Space class  *)
(* (scene/physics lifecycle, store change listener, per-frame reconciler   *)
(* and rig builder).                                                       *)
(*                                                                         *)
(* JavaScript runs one task at a time: an event handler, a frame callback  *)
(* or a promise continuation runs to completion, so each of these is one   *)
(* action.  The points where other tasks can interleave are the awaits.    *)
(***************************************************************************)
EXTENDS Integers, Sequences, FiniteSets, TLC

\* ---------------------------------------------------------------- bounds
\* Scene objects are identified by the order of their creation: 0 is the
\* working scene the store starts with, every reducer run that touches the
\* scene creates the next one.
MaxSceneId == 3
\* Number of ensureInitialized calls made by the application.
MaxCalls == 3
\* Number of required collider meshes the imported model may lack.
MaxMissing == 1
\* Distance (in thousandths of the unit of the threshold) by which a pose
\* is moved by an edit or by the physics step.
MovedBy == 6

\* ------------------------------------------------------------- constants
\* `private latestUnfulfilledScene_: Scene;` starts undefined.
Undefined == -1
\* `if (this.initializationPromise === undefined)`: no promise yet.
NoPromise == 0
\* `if (distance.value > 0.005)`, in thousandths.
PositionThreshold == 5

SceneIds == 0..MaxSceneId
PromiseIds == 1..(MaxCalls + 1)
Positions == {0, MovedBy}

Min(a, b) == IF a < b THEN a ELSE b

RemoveAt(seq, i) == [j \in 1..(Len(seq) - 1) |-> IF j < i THEN seq[j] ELSE seq[j + 1]]

VARIABLES
  space,      \* fields of the Space singleton used by the listener
  store,      \* the redux store: working scene and the scene objects
  live,       \* poses of the live (Babylon) node and of the robot body
  lifecycle,  \* ensureInitialized: promise, progress of the load
  rig,        \* what loadMeshes has installed
  frame,      \* position inside the render loop callback
  hist,       \* history of the requests and outcomes (observation only)
  call        \* a single function call examined on its own: inputs, results

vars == <<space, store, live, lifecycle, rig, frame, hist, call>>

\* ------------------------------------------------- store change listener
\* onStoreChange_ without the echo check: every change is a scene change.
onStoreChange_NoDebounce(s, ws) ==
  IF ~s.sceneSetting_
    THEN [s EXCEPT !.sceneSetting_ = TRUE,
                   !.latestUnfulfilledScene_ = ws,
                   !.physicsEnabled = FALSE,
                   !.setSceneArg = ws,
                   !.chains = Append(@, [scene |-> ws, arg |-> ws, stage |-> 1])]
    ELSE [s EXCEPT !.latestUnfulfilledScene_ = ws]

\* onStoreChange_ that leaves physics running while the scene is replaced.
onStoreChange_KeepPhysics(s, ws) ==
  IF s.debounceUpdate_
    THEN [s EXCEPT !.bindingScene = ws]
    ELSE IF ~s.sceneSetting_
      THEN [s EXCEPT !.sceneSetting_ = TRUE,
                     !.latestUnfulfilledScene_ = ws,
                     !.setSceneArg = ws,
                     !.chains = Append(@, [scene |-> ws, arg |-> ws, stage |-> 1])]
      ELSE [s EXCEPT !.latestUnfulfilledScene_ = ws]

\* onStoreChange_ without the sceneSetting_ guard: every request starts an
\* application of its own.
onStoreChange_NoGuard(s, ws) ==
  IF s.debounceUpdate_
    THEN [s EXCEPT !.bindingScene = ws]
    ELSE [s EXCEPT !.sceneSetting_ = TRUE,
                   !.latestUnfulfilledScene_ = ws,
                   !.physicsEnabled = FALSE,
                   !.setSceneArg = ws,
                   !.chains = Append(@, [scene |-> ws, arg |-> ws, stage |-> 1])]

\* The listener, up to the first await of the task it starts: the task sets
\* physicsEnabled and calls setScene synchronously.
onStoreChange_(s, ws) ==
  IF s.debounceUpdate_
    THEN [s EXCEPT !.bindingScene = ws]
    ELSE IF ~s.sceneSetting_
      THEN [s EXCEPT !.sceneSetting_ = TRUE,
                     !.latestUnfulfilledScene_ = ws,
                     !.physicsEnabled = FALSE,
                     !.setSceneArg = ws,
                     !.chains = Append(@, [scene |-> ws, arg |-> ws, stage |-> 1])]
      ELSE [s EXCEPT !.latestUnfulfilledScene_ = ws]

\* The task without the follow-up: the first result always stands.
sceneSettingTask_NoFollowUp(s, i, ok) ==
  IF ok
    THEN [s EXCEPT !.physicsEnabled = TRUE,
                   !.chains = RemoveAt(@, i),
                   !.sceneSetting_ = FALSE]
    ELSE [s EXCEPT !.chains = RemoveAt(@, i), !.sceneSetting_ = FALSE]

\* The rest of the task started by the listener, resumed when the setScene
\* call of chain i settles (ok: it resolved).  A rejection skips the rest of
\* the async function; the finally callback runs in either case, in the
\* same microtask checkpoint as the end of the function.
sceneSettingTask(s, i, ok) ==
  LET c == s.chains[i] IN
  IF ~ok
    THEN [s EXCEPT !.chains = RemoveAt(@, i), !.sceneSetting_ = FALSE]
    ELSE IF c.stage = 1 /\ s.latestUnfulfilledScene_ # c.scene
      THEN [s EXCEPT !.chains[i] = [c EXCEPT !.stage = 2,
                                             !.arg = s.latestUnfulfilledScene_],
                     !.setSceneArg = s.latestUnfulfilledScene_]
      ELSE [s EXCEPT !.physicsEnabled = TRUE,
                     !.chains = RemoveAt(@, i),
                     !.sceneSetting_ = FALSE]

\* What the history records of a store change delivered to the listener
\* outside updateStore_: a request.  A burst is the run of requests from the
\* one that found the listener idle to the next such one.
Request(h, s, ws) ==
  IF ~s.sceneSetting_
    THEN [h EXCEPT !.burstCount = 1, !.firstReq = ws, !.secondReq = Undefined,
                   !.firstRejected = FALSE, !.lastRequested = ws]
    ELSE [h EXCEPT !.burstCount = Min(@ + 1, 3),
                   !.secondReq = IF h.burstCount = 1 THEN ws ELSE @,
                   !.lastRequested = ws]

\* store.subscribe: the listener runs synchronously inside dispatch, once
\* the subscription exists.  p is the pair of the Space fields and history.
Notify(p, subscribed, ws) ==
  IF ~subscribed THEN p
  ELSE [s |-> onStoreChange_(p.s, ws),
        h |-> IF p.s.debounceUpdate_ THEN p.h ELSE Request(p.h, p.s, ws)]

\* --------------------------------------------------------------- store
\* The reducer replaces the working scene by a new scene object.
NewScene(st, origins) ==
  [st EXCEPT !.workingScene = st.nextScene,
             !.scenes[st.nextScene] = origins,
             !.nextScene = @ + 1]

\* SceneBinding.setScene, once resolved, has applied to the live scene what
\* differs between the scene the binding held and the scene it was given
\* (everything, when it held none).
SetSceneEffect(st, lv, held, arg) ==
  LET new == st.scenes[arg] IN
  IF held = Undefined THEN new
  ELSE LET old == st.scenes[held] IN
       [node |-> IF old.node # new.node THEN new.node ELSE lv.node,
        robot |-> IF old.robot # new.robot THEN new.robot ELSE lv.robot]

\* ----------------------------------------------------------- reconciler
Dist(a, b) == IF a < b THEN b - a ELSE a - b

\* The change of an origin the reconciler reports: <<>> when the live
\* position is within the threshold, else the live position.
getSignificantOriginChange(position, bPosition) ==
  IF Dist(position, bPosition) > PositionThreshold THEN <<bPosition>> ELSE <<>>

\* The per-frame reconciler.  It reads the working scene once, then
\* dispatches setNodeBatch and setRobotOrigin with debounceUpdate_ set; each
\* dispatch runs the reducer and then the listener.  The result holds the
\* Space fields, the history, the store and the set of requests emitted.
updateStore_(p, st, lv, subscribed) ==
  LET origins == st.scenes[st.workingScene]
      nodeOriginChange == getSignificantOriginChange(origins.node, lv.node)
      robotOriginChange == getSignificantOriginChange(origins.robot, lv.robot)
      p0 == [p EXCEPT !.s.debounceUpdate_ = TRUE]
      st1 == IF nodeOriginChange # <<>>
               THEN NewScene(st, [origins EXCEPT !.node = nodeOriginChange[1]])
               ELSE st
      p1 == IF nodeOriginChange # <<>>
              THEN Notify(p0, subscribed, st1.workingScene)
              ELSE p0
      st2 == IF robotOriginChange # <<>>
               THEN NewScene(st1, [st1.scenes[st1.workingScene]
                                     EXCEPT !.robot = robotOriginChange[1]])
               ELSE st1
      p2 == IF robotOriginChange # <<>>
              THEN Notify(p1, subscribed, st2.workingScene)
              ELSE p1
  IN [p |-> [p2 EXCEPT !.s.debounceUpdate_ = FALSE],
      store |-> st2,
      emitted |-> (IF nodeOriginChange # <<>> THEN {"setNodeBatch"} ELSE {})
                    \cup (IF robotOriginChange # <<>> THEN {"setRobotOrigin"} ELSE {})]

\* Scene objects the reconciler would create in this frame.
ScenesNeeded(st, lv) ==
  LET origins == st.scenes[st.workingScene] IN
  (IF getSignificantOriginChange(origins.node, lv.node) # <<>> THEN 1 ELSE 0)
   + (IF getSignificantOriginChange(origins.robot, lv.robot) # <<>> THEN 1 ELSE 0)

\* ------------------------------------------------------------ lifecycle
\* ensureInitialized that starts a load on every call.
ensureInitialized_Always(l, ws) ==
  [l EXCEPT !.initializationPromise = l.nextPromise,
            !.nextPromise = @ + 1,
            !.promiseState[l.nextPromise] = "pending",
            !.createSceneCalls = @ + 1,
            !.createSceneArg = ws,
            !.pc = "createScene"]

\* ensureInitialized: the promise executor runs createScene up to its await
\* of sceneBinding_.setScene(working scene).
ensureInitialized(l, ws) ==
  IF l.initializationPromise = NoPromise
    THEN [l EXCEPT !.initializationPromise = l.nextPromise,
                   !.nextPromise = @ + 1,
                   !.promiseState[l.nextPromise] = "pending",
                   !.createSceneCalls = @ + 1,
                   !.createSceneArg = ws,
                   !.pc = "createScene"]
    ELSE l

\* A then handler that starts the render loop before the meshes are loaded.
loadMeshesStart_RenderEarly(l) ==
  [l EXCEPT !.loadMeshesCalls = @ + 1, !.pc = "importMesh",
            !.storeSubscription_ = TRUE, !.renderLoop = TRUE]

\* `.then(() => this.loadMeshes())`: loadMeshes runs up to its await of
\* ImportMeshAsync.
loadMeshesStart(l) ==
  [l EXCEPT !.loadMeshesCalls = @ + 1, !.pc = "importMesh"]

\* A catch handler that forgets the promise, so that the next call retries.
initializationFailed_Forget(l) ==
  [l EXCEPT !.promiseState[l.initializationPromise] = "rejected",
            !.initializationPromise = NoPromise,
            !.pc = "failed"]

\* `.catch((e) => { console.error(...); reject(e); })`
initializationFailed(l) ==
  [l EXCEPT !.promiseState[l.initializationPromise] = "rejected",
            !.pc = "failed"]

\* startRenderLoop (with initStoreSubscription_), then resolve().
startRenderLoop(l) ==
  [l EXCEPT !.storeSubscription_ = TRUE,
            !.renderLoop = TRUE,
            !.promiseState[l.initializationPromise] = "resolved",
            !.pc = "ready"]

\* ------------------------------------------------------------ rig builder
bodyColliderMeshInfos ==
  << "collider_body", "collider_body_back_panel", "collider_body_front_panel",
     "collider_body_front_legos_1", "collider_body_front_legos_2",
     "collider_body_front_legos_3", "collider_body_lego", "collider_caster",
     "collider_touch_back_left", "collider_touch_back_right",
     "collider_touch_front", "collider_wallaby", "collider_battery",
     "collider_arm_servo" >>

armColliderMeshInfos ==
  << "collider_arm_claw_1", "collider_arm_claw_2", "collider_arm_claw_3",
     "collider_claw_servo", "collider_claw_servo_rod_1",
     "collider_claw_servo_rod_2", "collider_claw_et", "collider_arm_base" >>

clawColliderMeshInfos ==
  << "collider_claw_1", "collider_claw_2", "collider_claw_3",
     "collider_claw_3_metal" >>

Range(seq) == {seq[i] : i \in 1..Len(seq)}

\* The collider meshes loadMeshes looks up by name.
RequiredMeshes ==
  Range(bodyColliderMeshInfos) \cup Range(armColliderMeshInfos)
    \cup Range(clawColliderMeshInfos)
    \cup {"collider_left_wheel", "collider_right_wheel"}

RECURSIVE SetsUpTo(_)
\* The sets of at most k required meshes.
SetsUpTo(k) ==
  IF k = 0 THEN {{}}
  ELSE LET smaller == SetsUpTo(k - 1) IN
       smaller \cup {m \cup {x} : m \in smaller, x \in RequiredMeshes}

\* The fields of Space that loadMeshes assigns, before it has run.
NoRig ==
  [bodyCompoundRootMesh |-> FALSE, armCompoundRootMesh |-> FALSE,
   clawCompoundRootMesh |-> FALSE,
   colliderLeftWheelMesh |-> FALSE, colliderRightWheelMesh |-> FALSE,
   unparented |-> {}, impostor |-> {}, parent |-> {},
   baselines |-> FALSE, joints |-> {}, error |-> FALSE]

RECURSIVE attachColliders(_, _, _, _)
\* One of the three loops over a manifest: look the mesh up, throw when it
\* is absent, else unparent it, fix its scale, give it a mass-0 impostor and
\* parent it to the compound root.
attachColliders(r, infos, root, present) ==
  IF infos = <<>> THEN r
  ELSE LET name == Head(infos) IN
    IF name \notin present
      THEN [r EXCEPT !.error = TRUE]
      ELSE attachColliders(
             [r EXCEPT !.unparented = @ \cup {name},
                       !.impostor = @ \cup {name},
                       !.parent = @ \cup {<<name, root>>}],
             Tail(infos), root, present)

\* The compound roots: each is created after a lookup of the mesh that gives
\* its position; a null lookup throws (a TypeError) at computeWorldMatrix.
createCompoundRoots(r, present) ==
  IF "collider_wallaby" \notin present THEN [r EXCEPT !.error = TRUE]
  ELSE LET r1 == [r EXCEPT !.bodyCompoundRootMesh = TRUE] IN
    IF "collider_claw_servo" \notin present THEN [r1 EXCEPT !.error = TRUE]
    ELSE LET r2 == [r1 EXCEPT !.armCompoundRootMesh = TRUE] IN
      IF "collider_claw_3" \notin present THEN [r2 EXCEPT !.error = TRUE]
      ELSE [r2 EXCEPT !.clawCompoundRootMesh = TRUE]

\* The wheels: both fields are assigned from the lookups, then the meshes
\* are unparented, left first; a null wheel throws there.
findWheels(r, present) ==
  LET r1 == [r EXCEPT
               !.colliderLeftWheelMesh = ("collider_left_wheel" \in present),
               !.colliderRightWheelMesh = ("collider_right_wheel" \in present)]
  IN IF ~r1.colliderLeftWheelMesh THEN [r1 EXCEPT !.error = TRUE]
     ELSE IF ~r1.colliderRightWheelMesh
       THEN [r1 EXCEPT !.unparented = @ \cup {"collider_left_wheel"},
                       !.error = TRUE]
       ELSE [r1 EXCEPT !.unparented =
                         @ \cup {"collider_left_wheel", "collider_right_wheel"}]

\* The end of loadMeshes without the baselines.
finishRig_NoBaselines(r) ==
  [r EXCEPT !.impostor = @ \cup {"bodyCompoundMesh", "collider_left_wheel",
                                 "collider_right_wheel", "armCompoundMesh",
                                 "clawCenterMesh"},
            !.joints = {"clawJoint", "armJoint", "rightWheelJoint",
                        "leftWheelJoint"}]

\* Baselines, rigid bodies of the roots and wheels, then the four joints.
finishRig(r) ==
  [r EXCEPT !.baselines = TRUE,
            !.impostor = @ \cup {"bodyCompoundMesh", "collider_left_wheel",
                                 "collider_right_wheel", "armCompoundMesh",
                                 "clawCenterMesh"},
            !.joints = {"clawJoint", "armJoint", "rightWheelJoint",
                        "leftWheelJoint"}]

\* loadMeshes from the resolution of ImportMeshAsync to its last await,
\* given the collider meshes present in the imported model.  An exception
\* ends it where it is thrown, with everything done so far left in place.
loadMeshes(r, present) ==
  LET r1 == createCompoundRoots(r, present)
      r2 == IF r1.error THEN r1
            ELSE attachColliders(r1, bodyColliderMeshInfos, "body", present)
      r3 == IF r2.error THEN r2
            ELSE attachColliders(r2, armColliderMeshInfos, "arm", present)
      r4 == IF r3.error THEN r3
            ELSE attachColliders(r3, clawColliderMeshInfos, "claw", present)
      r5 == IF r4.error THEN r4 ELSE findWheels(r4, present)
  IN IF r5.error THEN r5 ELSE finishRig(r5)

\* ----------------------------------------------------------------- init
CoreInit ==
  /\ space = [debounceUpdate_ |-> FALSE, sceneSetting_ |-> FALSE,
              latestUnfulfilledScene_ |-> Undefined, physicsEnabled |-> TRUE,
              bindingScene |-> Undefined, setSceneArg |-> Undefined,
              chains |-> <<>>]
  /\ store = [workingScene |-> 0,
              scenes |-> [i \in SceneIds |-> [node |-> 0, robot |-> 0]],
              nextScene |-> 1]
  /\ live = [node |-> 0, robot |-> 0]
  /\ lifecycle = [initializationPromise |-> NoPromise, nextPromise |-> 1,
                  promiseState |-> [i \in PromiseIds |-> "none"],
                  createSceneCalls |-> 0, loadMeshesCalls |-> 0,
                  createSceneArg |-> Undefined, pc |-> "uninitialized",
                  storeSubscription_ |-> FALSE, renderLoop |-> FALSE]
  /\ rig = NoRig
  /\ frame = [pc |-> "idle", emitted |-> {}]
  /\ hist = [burstCount |-> 0, firstReq |-> Undefined, secondReq |-> Undefined,
             firstRejected |-> FALSE, lastRequested |-> Undefined,
             anyRejected |-> FALSE, calls |-> 0, returned |-> {},
             loadFailed |-> FALSE, callsAfterFailure |-> 0,
             missingAbort |-> FALSE]

\* No function is examined on its own while the whole program runs.
NoCall == [fn |-> "none"]

Init == CoreInit /\ call = NoCall

\* -------------------------------------------------------------- actions
\* The application calls Space.getInstance().ensureInitialized().
EnsureInitialized ==
  /\ frame.pc = "idle"
  /\ hist.calls < MaxCalls
  /\ lifecycle' = ensureInitialized(lifecycle, store.workingScene)
  /\ space' = IF lifecycle'.createSceneCalls # lifecycle.createSceneCalls
                THEN [space EXCEPT !.setSceneArg = store.workingScene]
                ELSE space
  /\ hist' = [hist EXCEPT
                !.calls = @ + 1,
                !.returned = @ \cup {lifecycle'.initializationPromise},
                !.callsAfterFailure = IF hist.loadFailed THEN 1 ELSE @]
  /\ UNCHANGED <<store, live, rig, frame, call>>

\* The setScene call awaited by createScene settles.
CreateSceneSettle ==
  /\ frame.pc = "idle"
  /\ lifecycle.pc = "createScene"
  /\ \E ok \in BOOLEAN :
       IF ok
         THEN /\ lifecycle' = loadMeshesStart(lifecycle)
              /\ live' = SetSceneEffect(store, live, space.bindingScene,
                                        lifecycle.createSceneArg)
              /\ space' = [space EXCEPT !.bindingScene = lifecycle.createSceneArg]
              /\ hist' = hist
         ELSE /\ lifecycle' = initializationFailed(lifecycle)
              /\ live' = live
              /\ space' = space
              /\ hist' = [hist EXCEPT !.loadFailed = TRUE]
  /\ UNCHANGED <<store, rig, frame, call>>

\* ImportMeshAsync settles; when it resolves, loadMeshes builds the rig from
\* the meshes of the model and places the robot at the origin.
ImportMeshSettle ==
  /\ frame.pc = "idle"
  /\ lifecycle.pc = "importMesh"
  /\ \/ /\ lifecycle' = initializationFailed(lifecycle)
        /\ hist' = [hist EXCEPT !.loadFailed = TRUE]
        /\ UNCHANGED <<rig, live>>
     \/ \E missing \in SetsUpTo(MaxMissing) :
          /\ rig' = loadMeshes(rig, RequiredMeshes \ missing)
          /\ IF rig'.error
               THEN /\ lifecycle' = initializationFailed(lifecycle)
                    /\ hist' = [hist EXCEPT !.loadFailed = TRUE,
                                            !.missingAbort = (missing # {})]
                    /\ live' = live
               ELSE /\ lifecycle' = [lifecycle EXCEPT !.pc = "whenReady"]
                    /\ hist' = hist
                    /\ live' = [live EXCEPT !.robot = 0]
  /\ UNCHANGED <<space, store, frame, call>>

\* scene.whenReadyAsync settles; when it resolves the render loop starts.
WhenReadySettle ==
  /\ frame.pc = "idle"
  /\ lifecycle.pc = "whenReady"
  /\ \E ok \in BOOLEAN :
       IF ok
         THEN /\ lifecycle' = startRenderLoop(lifecycle)
              /\ hist' = hist
         ELSE /\ lifecycle' = initializationFailed(lifecycle)
              /\ hist' = [hist EXCEPT !.loadFailed = TRUE]
  /\ UNCHANGED <<space, store, live, rig, frame, call>>

\* The user changes the working scene in the editor: the new scene object
\* has the node at some position (possibly the same: a selection change).
DispatchSceneChange ==
  /\ frame.pc = "idle"
  /\ store.nextScene <= MaxSceneId
  /\ \E n \in Positions :
       LET st == NewScene(store, [store.scenes[store.workingScene]
                                   EXCEPT !.node = n])
           p == Notify([s |-> space, h |-> hist],
                       lifecycle.storeSubscription_, st.workingScene)
       IN /\ store' = st
          /\ space' = p.s
          /\ hist' = p.h
  /\ UNCHANGED <<live, lifecycle, rig, frame, call>>

\* A dispatch that leaves the scene alone (the running program writes the
\* robot state): the listener still runs, with the same working scene.
DispatchRobotState ==
  /\ frame.pc = "idle"
  /\ lifecycle.storeSubscription_
  /\ LET p == Notify([s |-> space, h |-> hist], TRUE, store.workingScene)
     IN /\ space' = p.s
        /\ hist' = p.h
  /\ UNCHANGED <<store, live, lifecycle, rig, frame, call>>

\* A setScene call started by the listener's task settles.
SetSceneSettle ==
  /\ frame.pc = "idle"
  /\ \E i \in 1..Len(space.chains), ok \in BOOLEAN :
       /\ space' = sceneSettingTask(
                      IF ok THEN [space EXCEPT !.bindingScene = space.chains[i].arg]
                            ELSE space, i, ok)
       /\ live' = IF ok
                    THEN SetSceneEffect(store, live, space.bindingScene,
                                        space.chains[i].arg)
                    ELSE live
       /\ hist' = IF ok THEN hist
                  ELSE [hist EXCEPT !.anyRejected = TRUE,
                                    !.firstRejected =
                                       (@ \/ space.chains[i].stage = 1)]
  /\ UNCHANGED <<store, lifecycle, rig, frame, call>>

\* The render loop callback, first half: updateStore_().
FrameUpdateStore ==
  /\ frame.pc = "idle"
  /\ lifecycle.renderLoop
  /\ store.nextScene + ScenesNeeded(store, live) <= MaxSceneId + 1
  /\ LET u == updateStore_([s |-> space, h |-> hist], store, live,
                           lifecycle.storeSubscription_)
     IN /\ space' = u.p.s
        /\ hist' = u.p.h
        /\ store' = u.store
        /\ frame' = [pc |-> "render", emitted |-> u.emitted]
  /\ UNCHANGED <<live, lifecycle, rig, call>>

\* The render loop callback, second half: scene.render().  The before-render
\* callback dispatches the robot state when a sensor was updated, the
\* physics step moves the robot when physics is enabled, and the
\* after-render callback always dispatches the robot state.
FrameRender ==
  /\ frame.pc = "render"
  /\ \E anyUpdated \in BOOLEAN, moved \in Positions :
       LET p0 == [s |-> space, h |-> hist]
           p1 == IF anyUpdated
                   THEN Notify(p0, lifecycle.storeSubscription_, store.workingScene)
                   ELSE p0
           p2 == Notify(p1, lifecycle.storeSubscription_, store.workingScene)
       IN /\ live' = IF p1.s.physicsEnabled
                       THEN [live EXCEPT !.robot = moved]
                       ELSE live
          /\ space' = p2.s
          /\ hist' = p2.h
  /\ frame' = [pc |-> "idle", emitted |-> {}]
  /\ UNCHANGED <<store, lifecycle, rig, call>>

Next ==
  \/ EnsureInitialized
  \/ CreateSceneSettle
  \/ ImportMeshSettle
  \/ WhenReadySettle
  \/ DispatchSceneChange
  \/ DispatchRobotState
  \/ SetSceneSettle
  \/ FrameUpdateStore
  \/ FrameRender

Spec == Init /\ [][Next]_vars

\* --------------------------------------------------------------- claims
InFlight == Len(space.chains)

C2_LatestRequestWins ==
  (~space.sceneSetting_ /\ hist.lastRequested # Undefined /\ ~hist.anyRejected)
    => space.setSceneArg = hist.lastRequested

\* C3: an updateStore_ run that takes place while a scene application is in
\* flight emits neither setNodeBatch nor setRobotOrigin.
C3_ReconcilerSuspended ==
  (frame.pc = "render" /\ space.sceneSetting_) => frame.emitted = {}

\* C4: the store changes made by updateStore_ start no scene application and
\* leave physicsEnabled, sceneSetting_ and latestUnfulfilledScene_ alone;
\* the listener only hands the new working scene to the binding.
C4_EchoSuppressed ==
  [][(frame.pc = "idle" /\ frame'.pc = "render") =>
       /\ space'.chains = space.chains
       /\ space'.setSceneArg = space.setSceneArg
       /\ space'.physicsEnabled = space.physicsEnabled
       /\ space'.sceneSetting_ = space.sceneSetting_
       /\ space'.latestUnfulfilledScene_ = space.latestUnfulfilledScene_
       /\ frame'.emitted # {} => space'.bindingScene = store'.workingScene]_vars

C4_Witness ==
  /\ frame.pc = "render"
  /\ frame.emitted # {}
  /\ ~space.sceneSetting_
  /\ space.bindingScene = store.workingScene

\* C5: while a setScene call started by the listener is in flight, physics
\* is disabled.
C5_PhysicsSuspended == InFlight > 0 => ~space.physicsEnabled

C5_Witness ==
  /\ InFlight = 1
  /\ space.chains[1].stage = 2
  /\ ~space.physicsEnabled

\* C6: whenever the listener is idle after a scene replacement, physics is
\* enabled, whatever the outcome of the setScene calls.
C6_PhysicsResumed ==
  (~space.sceneSetting_ /\ hist.lastRequested # Undefined) => space.physicsEnabled

\* C7: at most one setScene call started by the listener is in flight, and a
\* request that arrives during it is only recorded as latestUnfulfilledScene_.
C7_OneApplicationInFlight ==
  /\ InFlight <= 1
  /\ (space.sceneSetting_ /\ hist.burstCount >= 2)
       => space.latestUnfulfilledScene_ = hist.lastRequested

C7_Witness ==
  /\ InFlight = 1
  /\ hist.burstCount >= 2
  /\ space.latestUnfulfilledScene_ # space.chains[1].scene
  /\ space.chains[1].stage = 1

\* C8: however often ensureInitialized is called, createScene and loadMeshes
\* are each started at most once and all calls return the same promise.
C8_EnsureInitializedIdempotent ==
  /\ lifecycle.createSceneCalls <= 1
  /\ lifecycle.loadMeshesCalls <= 1
  /\ Cardinality(hist.returned) <= 1

C8_Witness ==
  /\ hist.calls >= 2
  /\ lifecycle.pc = "ready"
  /\ lifecycle.loadMeshesCalls = 1

\* C9: after createScene or loadMeshes failed, the promise is rejected, the
\* render loop and the store subscription are not started, and the calls of
\* ensureInitialized return that promise without starting another load.
C9_LoadFailureIsFatal ==
  hist.loadFailed =>
    /\ lifecycle.initializationPromise # NoPromise
    /\ lifecycle.promiseState[lifecycle.initializationPromise] = "rejected"
    /\ ~lifecycle.renderLoop
    /\ ~lifecycle.storeSubscription_
    /\ lifecycle.createSceneCalls = 1
    /\ lifecycle.loadMeshesCalls <= 1
    /\ hist.returned \subseteq {lifecycle.initializationPromise}

C9_Witness ==
  /\ hist.loadFailed
  /\ hist.callsAfterFailure = 1
  /\ lifecycle.loadMeshesCalls = 1

\* C10: after loadMeshes aborted on a missing collider mesh, no part of the
\* rig is installed: no compound root is assigned, no collider has an
\* impostor or a compound root as parent, and there is no joint.
C10_NoPartialRig ==
  hist.missingAbort =>
    /\ ~rig.bodyCompoundRootMesh
    /\ ~rig.armCompoundRootMesh
    /\ ~rig.clawCompoundRootMesh
    /\ rig.impostor = {}
    /\ rig.parent = {}
    /\ rig.joints = {}

\* C11: the render loop, the reconciler, the frame callbacks and the store
\* subscription run only after createScene and loadMeshes have completed
\* successfully: never while the load is pending or after it failed.
C11_ReadyOrdering ==
  (\/ lifecycle.renderLoop
   \/ lifecycle.storeSubscription_
   \/ frame.pc = "render"
   \/ hist.lastRequested # Undefined)
    => /\ lifecycle.pc = "ready"
       /\ lifecycle.createSceneCalls = 1
       /\ lifecycle.loadMeshesCalls = 1
       /\ ~rig.error
       /\ rig.baselines
       /\ Cardinality(rig.joints) = 4

C11_Witness ==
  /\ frame.pc = "render"
  /\ lifecycle.pc = "ready"
  /\ hist.lastRequested # Undefined

\* ------------------------------------------------------ wheel drive
\* `private readonly MAX_MOTOR_VELOCITY = 1500;`
MAX_MOTOR_VELOCITY == 1500
\* `setMotor(leftSpeedClamped / 315)`
WheelSpeedDivisor == 315
\* How far beyond the limits the commanded speeds range.
SpeedMargin == 2

Abs(x) == IF x < 0 THEN -x ELSE x
Max(a, b) == IF a > b THEN a ELSE b

\* A motor speed is the exact quotient num / den.
Quotient(n, d) == [num |-> n, den |-> d]
SameValue(q, r) == q.num * r.den = r.num * q.den
OppositeValue(q, r) == q.num * r.den = -(r.num * q.den)

\* setDriveMotors that drives both joints with the same sign.
setDriveMotors_NoMirror(leftSpeed, rightSpeed, joints) ==
  LET leftSpeedClamped ==
        Max(-MAX_MOTOR_VELOCITY, Min(leftSpeed, MAX_MOTOR_VELOCITY))
      rightSpeedClamped ==
        Max(-MAX_MOTOR_VELOCITY, Min(rightSpeed, MAX_MOTOR_VELOCITY))
  IN [leftWheelJoint |-> IF joints
                           THEN <<Quotient(leftSpeedClamped, WheelSpeedDivisor)>>
                           ELSE <<>>,
      rightWheelJoint |-> IF joints
                            THEN <<Quotient(rightSpeedClamped, WheelSpeedDivisor)>>
                            ELSE <<>>,
      leftStopped |-> (leftSpeed = 0),
      rightStopped |-> (rightSpeed = 0)]

\* setDriveMotors that passes the commanded speeds on unclamped.
setDriveMotors_NoClamp(leftSpeed, rightSpeed, joints) ==
  [leftWheelJoint |-> IF joints
                        THEN <<Quotient(leftSpeed, WheelSpeedDivisor)>>
                        ELSE <<>>,
   rightWheelJoint |-> IF joints
                         THEN <<Quotient(-rightSpeed, WheelSpeedDivisor)>>
                         ELSE <<>>,
   leftStopped |-> (leftSpeed = 0),
   rightStopped |-> (rightSpeed = 0)]

\* setDriveMotors: the setMotor calls made on the two wheel joints (when
\* both joints exist) and whether each wheel's angular velocity is zeroed.
setDriveMotors(leftSpeed, rightSpeed, joints) ==
  LET leftSpeedClamped ==
        Max(-MAX_MOTOR_VELOCITY, Min(leftSpeed, MAX_MOTOR_VELOCITY))
      rightSpeedClamped ==
        Max(-MAX_MOTOR_VELOCITY, Min(rightSpeed, MAX_MOTOR_VELOCITY))
  IN [leftWheelJoint |-> IF joints
                           THEN <<Quotient(leftSpeedClamped, WheelSpeedDivisor)>>
                           ELSE <<>>,
      rightWheelJoint |-> IF joints
                            THEN <<Quotient(-rightSpeedClamped, WheelSpeedDivisor)>>
                            ELSE <<>>,
      leftStopped |-> (leftSpeed = 0),
      rightStopped |-> (rightSpeed = 0)]

\* Commanded speeds: around zero, around both limits, and the divisor.
Speeds ==
  LET near == (-SpeedMargin)..SpeedMargin IN
  near \cup {MAX_MOTOR_VELOCITY + d : d \in near}
       \cup {-MAX_MOTOR_VELOCITY + d : d \in near}
       \cup {WheelSpeedDivisor, -WheelSpeedDivisor}

\* The after-render callback calls setDriveMotors with motorSpeeds[0] and
\* motorSpeeds[3] of the robot state; the joints exist by then.
DriveMotorsInit ==
  /\ CoreInit
  /\ \E l \in Speeds, r \in Speeds :
       call = [fn |-> "setDriveMotors", done |-> FALSE,
               leftSpeed |-> l, rightSpeed |-> r,
               result |-> setDriveMotors(0, 0, FALSE)]

DriveMotorsCall ==
  /\ call.fn = "setDriveMotors"
  /\ ~call.done
  /\ call' = [call EXCEPT !.done = TRUE,
                          !.result = setDriveMotors(call.leftSpeed,
                                                    call.rightSpeed, TRUE)]
  /\ UNCHANGED <<space, store, live, lifecycle, rig, frame, hist>>

DriveMotorsNext == DriveMotorsCall

SpecDriveMotors == DriveMotorsInit /\ [][DriveMotorsNext]_vars

DriveMotorsDone == call.fn = "setDriveMotors" /\ call.done

\* C12 as stated: with leftSpeed = v and rightSpeed = -v the commands to the
\* two wheel joints have equal magnitude and opposite sign.
C12_OppositeCommands ==
  (DriveMotorsDone /\ call.rightSpeed = -call.leftSpeed) =>
    /\ Len(call.result.leftWheelJoint) = 1
    /\ Len(call.result.rightWheelJoint) = 1
    /\ OppositeValue(call.result.leftWheelJoint[1], call.result.rightWheelJoint[1])

\* C12 amended: with leftSpeed = v and rightSpeed = -v the two commands are
\* equal (same magnitude, same sign); with leftSpeed = rightSpeed = v they
\* have equal magnitude and opposite sign.
C12_MirroredCommands ==
  DriveMotorsDone =>
    /\ Len(call.result.leftWheelJoint) = 1
    /\ Len(call.result.rightWheelJoint) = 1
    /\ call.rightSpeed = -call.leftSpeed =>
         SameValue(call.result.leftWheelJoint[1], call.result.rightWheelJoint[1])
    /\ call.rightSpeed = call.leftSpeed =>
         OppositeValue(call.result.leftWheelJoint[1], call.result.rightWheelJoint[1])

C12_Witness ==
  /\ DriveMotorsDone
  /\ call.leftSpeed > 0
  /\ call.rightSpeed = -call.leftSpeed
  /\ call.result.leftWheelJoint[1].num > 0
  /\ call.result.rightWheelJoint[1].num > 0

\* C13: the magnitude of each wheel command never exceeds
\* MAX_MOTOR_VELOCITY / 315, and is |v| / 315 when |v| <= MAX_MOTOR_VELOCITY.
C13_WheelClamping ==
  DriveMotorsDone =>
    /\ Len(call.result.leftWheelJoint) = 1
    /\ Len(call.result.rightWheelJoint) = 1
    /\ LET cl == call.result.leftWheelJoint[1]
           cr == call.result.rightWheelJoint[1]
       IN /\ cl.den > 0 /\ cr.den > 0
          /\ Abs(cl.num) * WheelSpeedDivisor <= MAX_MOTOR_VELOCITY * cl.den
          /\ Abs(cr.num) * WheelSpeedDivisor <= MAX_MOTOR_VELOCITY * cr.den
          /\ Abs(call.leftSpeed) <= MAX_MOTOR_VELOCITY =>
               Abs(cl.num) * WheelSpeedDivisor = Abs(call.leftSpeed) * cl.den
          /\ Abs(call.rightSpeed) <= MAX_MOTOR_VELOCITY =>
               Abs(cr.num) * WheelSpeedDivisor = Abs(call.rightSpeed) * cr.den

C13_Witness ==
  /\ DriveMotorsDone
  /\ call.leftSpeed > MAX_MOTOR_VELOCITY
  /\ call.rightSpeed < -MAX_MOTOR_VELOCITY
  /\ call.result.leftWheelJoint[1].num = MAX_MOTOR_VELOCITY
  /\ call.result.rightWheelJoint[1].num = MAX_MOTOR_VELOCITY

\* ------------------------------------------------------------ servos
\* Angles are counted in units of 1/175 of a servo tick, which makes a tick,
\* Math.PI and the thousandths of the servo range whole numbers: the range
\* (175 degrees, 2048 ticks) is 358400 units and Math.PI is 368640.
Pi == 368640
\* `SERVO_DEFUALT_RADIANS = 87.5 * Math.PI / 180`
SERVO_DEFUALT_RADIANS == 179200
\* `CLAW_DEFAULT_ROTATION = 175 * Math.PI / 180`
CLAW_DEFAULT_ROTATION == 358400
\* `SERVO_TICKS_PER_RADIAN = 2048 / (2 * SERVO_DEFUALT_RADIANS)`
ServoTicks == 2048
\* Max forces passed to setMotor for the arm and the claw.
ArmMaxForce == 8000
ClawMaxForce == 2000
\* How far around each threshold the servo rotations range.
ServoMargin == 1

ARM_DEFAULT_ROTATION == SERVO_DEFUALT_RADIANS

\* `if (rotation >= Math.PI) rotation = rotation - 2 * Math.PI`
wrapServoRotation(rotation) ==
  IF rotation >= Pi THEN rotation - 2 * Pi ELSE rotation

\* goals[i] / SERVO_TICKS_PER_RADIAN (a whole number of units per tick).
goalRotation(goal) == (goal * 2 * SERVO_DEFUALT_RADIANS) \div ServoTicks

armDelta(armRotation, goal) ==
  armRotation + ARM_DEFAULT_ROTATION - goalRotation(goal)

clawDelta(clawRotation, goal) ==
  clawRotation - CLAW_DEFAULT_ROTATION + goalRotation(goal)

\* Math.abs(delta / (SERVO_DEFUALT_RADIANS * 2))
deltaNorm(delta) == Quotient(Abs(delta), SERVO_DEFUALT_RADIANS * 2)

\* q < n / d, q <= n / d for a quotient q with a positive denominator.
Below(q, n, d) == q.num * d < n * q.den
AtMost(q, n, d) == q.num * d <= n * q.den

\* A setMotor call: the speed and the max force (Undefined when not passed).
MotorCommand(speed, maxForce) == [speed |-> speed, maxForce |-> maxForce]

\* The servo branch without its stop tier.
servoCommand_NoDeadBand(delta, sign, maxForce) ==
  LET norm == deltaNorm(delta) IN
  IF ~Below(norm, 1, 1000) /\ AtMost(norm, 4, 100)
    THEN MotorCommand(Quotient(sign * 12, 10), maxForce)
    ELSE MotorCommand(Quotient(sign * 6, 1), maxForce)

\* The servo branch with the low tier tested before the stop tier.
servoCommand_LowFirst(delta, sign, maxForce) ==
  LET norm == deltaNorm(delta) IN
  IF ~Below(norm, 1, 1000) /\ AtMost(norm, 4, 100)
    THEN MotorCommand(Quotient(sign * 12, 10), maxForce)
    ELSE IF Below(norm, 1, 100)
      THEN MotorCommand(Quotient(0, 1), Undefined)
      ELSE MotorCommand(Quotient(sign * 6, 1), maxForce)

\* `if (norm < 0.01) setMotor(0); else if (norm >= 0.001 && norm <= 0.04)
\* setMotor(sign * 1.2, force); else setMotor(sign * 6, force)`
servoCommand(delta, sign, maxForce) ==
  LET norm == deltaNorm(delta) IN
  IF Below(norm, 1, 100)
    THEN MotorCommand(Quotient(0, 1), Undefined)
    ELSE IF ~Below(norm, 1, 1000) /\ AtMost(norm, 4, 100)
      THEN MotorCommand(Quotient(sign * 12, 10), maxForce)
      ELSE MotorCommand(Quotient(sign * 6, 1), maxForce)

\* setServoPositions: the setMotor call made on each servo joint, given the
\* rotations read by getDeltaRotationOnAxis and the goals.
setServoPositions(armRead, clawRead, goals) ==
  LET armRotation == wrapServoRotation(armRead)
      aDelta == armDelta(armRotation, goals[1])
      armSign == IF aDelta >= 0 THEN 1 ELSE -1
      clawRotation == wrapServoRotation(clawRead)
      cDelta == clawDelta(clawRotation, goals[4])
      clawSign == IF cDelta >= 0 THEN -1 ELSE 1
  IN [armJoint |-> <<servoCommand(aDelta, armSign, ArmMaxForce)>>,
      clawJoint |-> <<servoCommand(cDelta, clawSign, ClawMaxForce)>>]

\* Offsets from the goal: zero, around each threshold of the normalized
\* delta (0.001, 0.01, 0.04 of the servo range), and a quarter of the range.
ServoOffsets ==
  LET range == 2 * SERVO_DEFUALT_RADIANS
      around == (-ServoMargin)..ServoMargin
      marks == {range \div 1000, range \div 100, (4 * range) \div 100}
      sizes == {m + e : m \in marks, e \in around} \cup {range \div 4}
  IN {0} \cup sizes \cup {-s : s \in sizes}

\* Servo goals (ticks): the low end and the middle of the range.
ServoGoals == {0, ServoTicks \div 2}

\* Rotations getDeltaRotationOnAxis can return (2 * acos(w), in [0, 2 Pi]):
\* those around the goal rotations of the arm and of the claw.
ArmReads ==
  {(goalRotation(g) - ARM_DEFAULT_ROTATION + o) % (2 * Pi) :
     g \in ServoGoals, o \in ServoOffsets}
ClawReads ==
  {(CLAW_DEFAULT_ROTATION - goalRotation(g) + o) % (2 * Pi) :
     g \in ServoGoals, o \in ServoOffsets}

NoServoCommand == [armJoint |-> <<>>, clawJoint |-> <<>>]

\* The after-render callback calls setServoPositions with the servo
\* positions of the robot state.
ServoInit ==
  /\ CoreInit
  /\ \E a \in ArmReads, c \in ClawReads, g0 \in ServoGoals, g3 \in ServoGoals :
       call = [fn |-> "setServoPositions", done |-> FALSE,
               armRead |-> a, clawRead |-> c, goals |-> <<g0, 0, 0, g3>>,
               result |-> NoServoCommand]

ServoCall ==
  /\ call.fn = "setServoPositions"
  /\ ~call.done
  /\ call' = [call EXCEPT !.done = TRUE,
                          !.result = setServoPositions(call.armRead,
                                                       call.clawRead, call.goals)]
  /\ UNCHANGED <<space, store, live, lifecycle, rig, frame, hist>>

ServoNext == ServoCall

SpecServo == ServoInit /\ [][ServoNext]_vars

ServoDone == call.fn = "setServoPositions" /\ call.done

\* The deltas of the examined call.
CallArmDelta == armDelta(wrapServoRotation(call.armRead), call.goals[1])
CallClawDelta == clawDelta(wrapServoRotation(call.clawRead), call.goals[4])

IsStop(cmds) == Len(cmds) = 1 /\ cmds[1].speed.num = 0
IsDrive(cmds, n, d, force) ==
  /\ Len(cmds) = 1
  /\ Abs(cmds[1].speed.num) * d = n * cmds[1].speed.den
  /\ cmds[1].maxForce = force

\* C14: a servo whose delta is exactly zero gets one command, a stop
\* (speed 0), and no drive command.
C14_ServoDeadBand ==
  ServoDone =>
    /\ CallArmDelta = 0 => IsStop(call.result.armJoint)
    /\ CallClawDelta = 0 => IsStop(call.result.clawJoint)

C14_Witness ==
  /\ ServoDone
  /\ CallArmDelta = 0
  /\ CallClawDelta = 0
  /\ call.armRead > Pi
  /\ IsStop(call.result.armJoint)
  /\ IsStop(call.result.clawJoint)

\* The tier of a normalized delta d: stop if d < 0.01; else low if d is in
\* [0.001, 0.04]; otherwise high.
TierHolds(delta, cmds, force) ==
  LET d == deltaNorm(delta) IN
  IF d.num * 100 < d.den
    THEN IsStop(cmds)
    ELSE IF d.num * 1000 >= d.den /\ d.num * 100 <= 4 * d.den
      THEN IsDrive(cmds, 12, 10, force)
      ELSE IsDrive(cmds, 6, 1, force)

\* C15: each servo gets exactly one command per call: stop if d < 0.01,
\* else speed 1.2 with the servo's max force if d is in [0.001, 0.04],
\* otherwise speed 6 with the same max force.
C15_ServoThreeTier ==
  ServoDone =>
    /\ TierHolds(CallArmDelta, call.result.armJoint, ArmMaxForce)
    /\ TierHolds(CallClawDelta, call.result.clawJoint, ClawMaxForce)

C15_Witness ==
  /\ ServoDone
  /\ IsStop(call.result.armJoint)
  /\ ~Below(deltaNorm(CallArmDelta), 1, 1000)
  /\ Below(deltaNorm(CallArmDelta), 1, 100)
  /\ IsDrive(call.result.clawJoint, 12, 10, ClawMaxForce)
  /\ deltaNorm(CallClawDelta).num * 100 = 4 * deltaNorm(CallClawDelta).den

\* ---------------------------------------------------- wheel encoders
\* `WHEEL_TICKS_PER_RADIAN = 2048 / (2 * Math.PI)`
WheelTicks == 2048
\* The wheel rotations read per frame are the multiples of Pi / EncoderSteps.
EncoderSteps == 4

\* The encoder pass without the wrap correction.
wrapWheelRotation_NoWrap(rotation) == rotation

\* `if (leftRotation > Math.PI) leftRotation = leftRotation - 2 * Math.PI`
wrapWheelRotation(rotation) ==
  IF rotation > Pi THEN rotation - 2 * Pi ELSE rotation

\* motorPositions[i] + rotation * WHEEL_TICKS_PER_RADIAN, as a quotient.
motorPosition(position, rotation) ==
  Quotient(position * 2 * Pi + rotation * WheelTicks, 2 * Pi)

\* The encoder part of the after-render callback: the rotations used and
\* the motorPositions dispatched with setRobotState.
encoderPass(motorPositions, leftRead, rightRead) ==
  LET leftRotation == wrapWheelRotation(leftRead)
      rightRotation == wrapWheelRotation(rightRead)
  IN [leftRotation |-> leftRotation,
      rightRotation |-> rightRotation,
      motorPositions |-> <<motorPosition(motorPositions[1], leftRotation),
                           Quotient(0, 1), Quotient(0, 1),
                           motorPosition(motorPositions[4], rightRotation)>>]

\* Rotations getDeltaRotationOnAxis can return for a wheel: [0, 2 Pi].
WheelReads == {(k * Pi) \div EncoderSteps : k \in 0..(2 * EncoderSteps)}

\* Motor positions held by the robot state before the frame.
MotorPositions == {<<m0, 0, 0, m3>> : m0 \in {0, 100}, m3 \in {0, 100}}

EncoderInit ==
  /\ CoreInit
  /\ \E l \in WheelReads, r \in WheelReads, m \in MotorPositions :
       call = [fn |-> "encoderPass", done |-> FALSE,
               leftRead |-> l, rightRead |-> r, motorPositions |-> m,
               result |-> encoderPass(m, 0, 0)]

EncoderCall ==
  /\ call.fn = "encoderPass"
  /\ ~call.done
  /\ call' = [call EXCEPT !.done = TRUE,
                          !.result = encoderPass(call.motorPositions,
                                                 call.leftRead, call.rightRead)]
  /\ UNCHANGED <<space, store, live, lifecycle, rig, frame, hist>>

EncoderNext == EncoderCall

SpecEncoder == EncoderInit /\ [][EncoderNext]_vars

EncoderDone == call.fn = "encoderPass" /\ call.done

\* The rotation the claim expects the encoder pass to use for a raw one.
Wrapped(raw, used) ==
  /\ (raw > Pi /\ raw <= 2 * Pi) => used = raw - 2 * Pi
  /\ (raw >= 0 /\ raw <= Pi) => used = raw

\* C19: a raw wheel rotation in (pi, 2 pi] is used minus 2 pi, a raw one in
\* [0, pi] is used unchanged, and the motor position advances by the used
\* rotation.
C19_WheelAngleWrap ==
  EncoderDone =>
    /\ Wrapped(call.leftRead, call.result.leftRotation)
    /\ Wrapped(call.rightRead, call.result.rightRotation)
    /\ call.result.motorPositions[1] =
         motorPosition(call.motorPositions[1],
                       IF call.leftRead > Pi THEN call.leftRead - 2 * Pi
                                             ELSE call.leftRead)
    /\ call.result.motorPositions[4] =
         motorPosition(call.motorPositions[4],
                       IF call.rightRead > Pi THEN call.rightRead - 2 * Pi
                                              ELSE call.rightRead)

C19_Witness ==
  /\ EncoderDone
  /\ 2 * call.leftRead = 3 * Pi
  /\ 2 * call.result.leftRotation = -Pi
  /\ call.rightRead = Pi
  /\ call.result.rightRotation = Pi

\* ------------------------------------------------ negative scaling
\* Scale components range over -MaxScale..MaxScale.
MaxScale == 2

\* Math.sign
Sign(x) == IF x > 0 THEN 1 ELSE IF x < 0 THEN -1 ELSE 0

\* A mesh: its scaling and one vertex of its vertex data (local coordinates).
Mesh(scaling, vertex) == [scaling |-> scaling, vertex |-> vertex]

\* Where the scaling puts the vertex (the mesh is unparented; its position
\* and rotation are not touched by the fix).
WorldVertex(mesh) == [i \in 1..3 |-> mesh.scaling[i] * mesh.vertex[i]]

\* fixNegativeScaling that resets the scaling without baking the signs.
fixNegativeScaling_NoBake(mesh) ==
  Mesh([i \in 1..3 |-> Abs(mesh.scaling[i])], mesh.vertex)

\* fixNegativeScaling: bakes Matrix.Scaling(sign x, sign y, sign z) into the
\* vertices and sets the scaling to the absolute values.
fixNegativeScaling(mesh) ==
  LET initialScaling == mesh.scaling
      scaleMatrix == [i \in 1..3 |-> Sign(initialScaling[i])]
  IN Mesh([i \in 1..3 |-> Abs(initialScaling[i])],
          [i \in 1..3 |-> scaleMatrix[i] * mesh.vertex[i]])

Scalings == [1..3 -> (-MaxScale)..MaxScale]
Vertices == [1..3 -> (-1)..1]

\* A collider mesh as imported, before loadMeshes calls fixNegativeScaling.
ScalingInit ==
  /\ CoreInit
  /\ \E s \in Scalings, v \in Vertices :
       call = [fn |-> "fixNegativeScaling", applied |-> 0,
               initial |-> Mesh(s, v), once |-> Mesh(s, v), mesh |-> Mesh(s, v)]

\* One application of the fix to the mesh (a second one is examined too).
ScalingCall ==
  /\ call.fn = "fixNegativeScaling"
  /\ call.applied < 2
  /\ call' = [call EXCEPT !.applied = @ + 1,
                          !.mesh = fixNegativeScaling(@),
                          !.once = IF call.applied = 0
                                     THEN fixNegativeScaling(call.mesh) ELSE @]
  /\ UNCHANGED <<space, store, live, lifecycle, rig, frame, hist>>

ScalingNext == ScalingCall

SpecScaling == ScalingInit /\ [][ScalingNext]_vars

ScalingDone == call.fn = "fixNegativeScaling" /\ call.applied >= 1

\* What holds of every scale: sign * new scale = original, the world-space
\* vertex stays, and a second application changes nothing.
ScalePreserved ==
  /\ \A i \in 1..3 :
       /\ call.once.scaling[i] = Abs(call.initial.scaling[i])
       /\ Sign(call.initial.scaling[i]) * call.once.scaling[i]
            = call.initial.scaling[i]
       /\ call.once.vertex[i] = Sign(call.initial.scaling[i]) * call.initial.vertex[i]
  /\ WorldVertex(call.once) = WorldVertex(call.initial)
  /\ call.applied = 2 => call.mesh = call.once

DistanceThreshold == 500
\* `radians.value > 0.00872665`
AngleThreshold == 872665
\* How far around the thresholds the live poses range (steps of 0.001 cm
\* and of 1e-8 rad).
OriginMargin == 1

Distance(type, value) == [type |-> type, value |-> value]

\* Distance.toType: one meter is a hundred centimeters.
toType(d, type) ==
  IF d.type = type THEN d
  ELSE IF type = "meters" THEN Distance("meters", d.value \div 100)
  ELSE Distance("centimeters", d.value * 100)

\* UnitVector3.fromRaw, UnitVector3.zero, UnitVector3.toTypeGranular
fromRaw(raw, type) == [i \in 1..3 |-> Distance(type, raw[i])]
zero(type) == fromRaw(<<0, 0, 0>>, type)
toTypeGranular(v, x, y, z) ==
  <<toType(v[1], x), toType(v[2], y), toType(v[3], z)>>

\* The square of UnitVector3.distance(a, b), a distance in meters.
distanceSquared(a, b) ==
  LET d == [i \in 1..3 |-> toType(a[i], "meters").value
                             - toType(b[i], "meters").value]
  IN d[1] * d[1] + d[2] * d[2] + d[3] * d[3]

\* Rotations about one axis, in the two representations of Rotation.
Euler(theta) == [type |-> "euler", x |-> theta, y |-> 0, z |-> 0]
AngleAxis(theta) == [type |-> "angle-axis", angle |-> theta, axis |-> <<1, 0, 0>>]
Theta(r) == IF r.type = "euler" THEN r.x ELSE r.angle
\* Rotation.toType, Rotation.angle (with Angle.toRadians)
rotationToType(r, type) ==
  IF type = "euler" THEN Euler(Theta(r)) ELSE AngleAxis(Theta(r))
rotationAngle(a, b) == Abs(Theta(a) - Theta(b))

\* `currentOrigin?.position ?? UnitVector3.zero('meters')`,
\* `currentOrigin?.orientation ?? Rotation.fromRawQuaternion(IDENTITY, 'euler')`
positionOf(origin) ==
  IF origin.position = <<>> THEN zero("meters") ELSE origin.position[1]
rotationOf(origin) ==
  IF origin.orientation = <<>> THEN Euler(0) ELSE origin.orientation[1]

\* The pose read from a Babylon node: a mesh or transform node has a
\* position and a rotation quaternion, a shadow light a position and the
\* identity rotation.
bRotationOf(bNode) == IF bNode.kind = "light" THEN 0 ELSE bNode.rotationQuaternion

\* getSignificantOriginChange that counts a difference equal to a threshold.
originChange_Inclusive(currentOrigin, bNode) ==
  LET position == positionOf(currentOrigin)
      rotation == rotationOf(currentOrigin)
      bPositionConv == fromRaw(bNode.position, "centimeters")
      bOrientationConv == Euler(bRotationOf(bNode))
  IN [position |->
        IF distanceSquared(position, bPositionConv)
             >= DistanceThreshold * DistanceThreshold
          THEN <<toTypeGranular(bPositionConv, position[1].type,
                                position[2].type, position[3].type)>>
          ELSE <<>>,
      orientation |->
        IF rotationAngle(rotation, bOrientationConv) >= AngleThreshold
          THEN <<rotationToType(bOrientationConv, rotation.type)>>
          ELSE <<>>]

\* getSignificantOriginChange that reports the live position as converted
\* from Babylon (centimeters), whatever the origin's unit types.
originChange_Centimeters(currentOrigin, bNode) ==
  LET position == positionOf(currentOrigin)
      rotation == rotationOf(currentOrigin)
      bPositionConv == fromRaw(bNode.position, "centimeters")
      bOrientationConv == Euler(bRotationOf(bNode))
  IN [position |->
        IF distanceSquared(position, bPositionConv)
             > DistanceThreshold * DistanceThreshold
          THEN <<bPositionConv>>
          ELSE <<>>,
      orientation |->
        IF rotationAngle(rotation, bOrientationConv) > AngleThreshold
          THEN <<rotationToType(bOrientationConv, rotation.type)>>
          ELSE <<>>]

\* getSignificantOriginChange that takes the threshold for centimeters.
originChange_Fine(currentOrigin, bNode) ==
  LET position == positionOf(currentOrigin)
      rotation == rotationOf(currentOrigin)
      bPositionConv == fromRaw(bNode.position, "centimeters")
      bOrientationConv == Euler(bRotationOf(bNode))
  IN [position |->
        IF distanceSquared(position, bPositionConv)
             > (DistanceThreshold \div 100) * (DistanceThreshold \div 100)
          THEN <<toTypeGranular(bPositionConv, position[1].type,
                                position[2].type, position[3].type)>>
          ELSE <<>>,
      orientation |->
        IF rotationAngle(rotation, bOrientationConv) > AngleThreshold
          THEN <<rotationToType(bOrientationConv, rotation.type)>>
          ELSE <<>>]

\* getSignificantOriginChange with units, three coordinates and the
\* orientation: the fields of the change, each <<>> when not set.
originChange(currentOrigin, bNode) ==
  LET position == positionOf(currentOrigin)
      rotation == rotationOf(currentOrigin)
      bPositionConv == fromRaw(bNode.position, "centimeters")
      bOrientationConv == Euler(bRotationOf(bNode))
  IN [position |->
        IF distanceSquared(position, bPositionConv)
             > DistanceThreshold * DistanceThreshold
          THEN <<toTypeGranular(bPositionConv, position[1].type,
                                position[2].type, position[3].type)>>
          ELSE <<>>,
      orientation |->
        IF rotationAngle(rotation, bOrientationConv) > AngleThreshold
          THEN <<rotationToType(bOrientationConv, rotation.type)>>
          ELSE <<>>]

\* The merge that leaves the origin as it was.
mergeOrigin_KeepOld(origin, change) == origin

\* `{ ...origin, ...change }`
mergeOrigin(origin, change) ==
  [origin EXCEPT
     !.position = IF change.position # <<>> THEN change.position ELSE @,
     !.orientation = IF change.orientation # <<>> THEN change.orientation ELSE @]

\* The loop body of updateStore_ for one node: the entry pushed on
\* setNodeBatch.nodeIds, if any.
nodeUpdate(node, bNode) ==
  IF bNode.kind = "none" THEN <<>>
  ELSE LET nodeOriginChange == originChange(node.origin, bNode) IN
       IF nodeOriginChange.position # <<>> \/ nodeOriginChange.orientation # <<>>
         THEN <<[node EXCEPT !.origin = mergeOrigin(node.origin, nodeOriginChange)]>>
         ELSE <<>>

\* The robot part of updateStore_: the setRobotOrigin parameters, if any.
robotUpdate(robotOrigin, bNode) ==
  LET robotOriginChange == originChange(robotOrigin, bNode) IN
  IF robotOriginChange.position # <<>> \/ robotOriginChange.orientation # <<>>
    THEN <<mergeOrigin(robotOrigin, robotOriginChange)>>
    ELSE <<>>

\* Declarative origins: each coordinate in its own unit type, at zero or
\* at 0.3 cm; the position, the orientation and the scale may be absent.
OriginPositions ==
  LET base == (3 * DistanceThreshold) \div 5
      xs == {Distance("centimeters", 0), Distance("meters", 0),
             Distance("centimeters", 100 * base), Distance("meters", base)}
      yzs == {Distance("centimeters", 0), Distance("meters", base)}
  IN {<<>>} \cup {<<<<x, y, z>>>> : x \in xs, y \in yzs, z \in yzs}

OriginRotations ==
  {<<>>, <<Euler(0)>>, <<AngleAxis(0)>>, <<AngleAxis(AngleThreshold)>>}

Origins ==
  [position : OriginPositions, orientation : OriginRotations,
   scale : {<<>>, <<<<2, 2, 2>>>>}]

\* How far the live pose is from the origin: nothing, 0.004 cm, 0.006 cm,
\* 0.3, 0.4, 0.6 cm and around 0.5 cm along x, nothing or 0.4 cm along y;
\* nothing, around the angle threshold, and beyond it the other way.
LiveOffsets ==
  LET t == 100 * DistanceThreshold
      xs == {0, 400, 600, (3 * t) \div 5, (4 * t) \div 5, (6 * t) \div 5}
              \cup {t + 100 * e : e \in (-OriginMargin)..OriginMargin}
  IN {<<x, y, 0>> : x \in xs, y \in {0, (4 * t) \div 5}}

LiveTurns ==
  {0, -(AngleThreshold + 1)}
    \cup {AngleThreshold + e : e \in (-OriginMargin)..OriginMargin}

\* The Babylon node found for a scene node: a mesh, a shadow light, or none
\* yet; the robot's is bodyCompoundRootMesh.
LivePose(origin, kind, off, turn) ==
  IF kind = "none"
    THEN [kind |-> kind, position |-> <<0, 0, 0>>, rotationQuaternion |-> 0]
    ELSE [kind |-> kind,
          position |-> [i \in 1..3 |->
                          toType(positionOf(origin)[i], "centimeters").value + off[i]],
          rotationQuaternion |-> IF kind = "light" THEN 0
                                 ELSE Theta(rotationOf(origin)) + turn]

OriginInit ==
  /\ CoreInit
  /\ \E origin \in Origins, off \in LiveOffsets, turn \in LiveTurns,
        subject \in {<<"node", "mesh">>, <<"node", "light">>,
                     <<"node", "none">>, <<"robot", "mesh">>} :
       /\ subject[2] # "mesh" => turn = 0
       /\ subject[2] = "none" => off = <<0, 0, 0>>
       /\ call = [fn |-> "updateStore_", done |-> FALSE, target |-> subject[1],
                  node |-> [name |-> subject[1], visible |-> TRUE, origin |-> origin],
                  bNode |-> LivePose(origin, subject[2], off, turn),
                  result |-> <<>>]

\* One pass of updateStore_ over the node, or over the robot.
OriginCall ==
  /\ call.fn = "updateStore_"
  /\ ~call.done
  /\ call' = [call EXCEPT !.done = TRUE,
                          !.result = IF call.target = "node"
                                       THEN nodeUpdate(call.node, call.bNode)
                                       ELSE robotUpdate(call.node.origin, call.bNode)]
  /\ UNCHANGED <<space, store, live, lifecycle, rig, frame, hist>>

OriginNext == OriginCall

SpecOrigin == OriginInit /\ [][OriginNext]_vars

OriginDone == call.fn = "updateStore_" /\ call.done

\* The differences of the examined call, and what it emitted.
CallDistanceSquared ==
  distanceSquared(positionOf(call.node.origin),
                  fromRaw(call.bNode.position, "centimeters"))
CallAngle ==
  rotationAngle(rotationOf(call.node.origin), Euler(bRotationOf(call.bNode)))
Emitted == call.result # <<>>
NewOrigin == IF call.target = "node" THEN call.result[1].origin ELSE call.result[1]

\* The new position is the live one, each coordinate in the unit type of
\* the origin's coordinate.
PositionInOriginalTypes ==
  /\ NewOrigin.position # <<>>
  /\ \A i \in 1..3 :
       /\ NewOrigin.position[1][i].type = positionOf(call.node.origin)[i].type
       /\ toType(NewOrigin.position[1][i], "centimeters").value
            = call.bNode.position[i]

\* The new orientation is the live one, in the origin's rotation type.
OrientationInOriginalType ==
  /\ NewOrigin.orientation # <<>>
  /\ NewOrigin.orientation[1].type = rotationOf(call.node.origin).type
  /\ Theta(NewOrigin.orientation[1]) = bRotationOf(call.bNode)

\* C16 as stated: a node 0.004 cm from its origin gets no update, a node
\* 0.006 cm from it gets one, with the position in the original unit types.
C16_FineThreshold ==
  (OriginDone /\ call.target = "node" /\ call.bNode.kind # "none" /\ CallAngle = 0) =>
    /\ CallDistanceSquared = 4 * 4 => ~Emitted
    /\ CallDistanceSquared = 6 * 6 => Emitted /\ PositionInOriginalTypes

\* C16 amended: a node 0.004 cm or 0.006 cm from its origin gets no update
\* (both are under 0.5 cm), nor does one 0.4 cm from it; a node 0.6 cm from
\* it gets one, with the position in the original unit types.
C16_HalfCentimeterThreshold ==
  (OriginDone /\ call.target = "node" /\ call.bNode.kind # "none" /\ CallAngle = 0) =>
    /\ CallDistanceSquared \in {4 * 4, 6 * 6} => ~Emitted
    /\ 25 * CallDistanceSquared = 16 * DistanceThreshold * DistanceThreshold
         => ~Emitted
    /\ 25 * CallDistanceSquared = 36 * DistanceThreshold * DistanceThreshold
         => Emitted /\ PositionInOriginalTypes

C16_Witness ==
  /\ OriginDone /\ call.target = "node" /\ CallAngle = 0
  /\ 25 * CallDistanceSquared = 36 * DistanceThreshold * DistanceThreshold
  /\ call.node.origin.position # <<>>
  /\ call.node.origin.position[1][1].type = "meters"
  /\ call.node.origin.position[1][2].type = "centimeters"
  /\ Emitted
  /\ NewOrigin.position[1][1].type = "meters"

C18_OnlyChangedFields ==
  (OriginDone /\ Emitted) =>
    /\ IF CallDistanceSquared > DistanceThreshold * DistanceThreshold
         THEN PositionInOriginalTypes
         ELSE NewOrigin.position = call.node.origin.position
    /\ IF CallAngle > AngleThreshold
         THEN OrientationInOriginalType
         ELSE NewOrigin.orientation = call.node.origin.orientation
    /\ NewOrigin.scale = call.node.origin.scale
    /\ call.target = "node" =>
         call.result[1] = [call.node EXCEPT !.origin = NewOrigin]

C18_Witness ==
  /\ OriginDone /\ Emitted
  /\ call.target = "robot"
  /\ CallDistanceSquared > DistanceThreshold * DistanceThreshold
  /\ CallAngle <= AngleThreshold /\ CallAngle > 0
  /\ call.node.origin.orientation # <<>>
  /\ call.node.origin.orientation[1].type = "angle-axis"
  /\ NewOrigin.orientation = call.node.origin.orientation
  /\ call.node.origin.position # <<>>
  /\ call.node.origin.position[1][1].type = "meters"
  /\ NewOrigin.position[1][1].type = "meters"
  /\ NewOrigin.position[1][2].type = "centimeters"
  /\ NewOrigin.scale # <<>>

\* ------------------------------------------- swing-twist extractor
\* The denominator of the components of the orientations examined.
QuatDen == 2

\* A quaternion (x, y, z, w) / den and a vector (x, y, z) / den, with
\* whole-number components and a positive den.
Quat(x, y, z, w, den) == [x |-> x, y |-> y, z |-> z, w |-> w, den |-> den]
Vec(x, y, z, den) == [x |-> x, y |-> y, z |-> z, den |-> den]

\* Babylon.Quaternion.multiply (the Hamilton product a * b) and
\* Babylon.Quaternion.Inverse (the conjugate).
multiply(a, b) ==
  Quat(a.x * b.w + a.y * b.z - a.z * b.y + a.w * b.x,
       (a.y * b.w + a.z * b.x + a.w * b.y) - a.x * b.z,
       (a.x * b.y + a.z * b.w + a.w * b.z) - a.y * b.x,
       a.w * b.w - (a.x * b.x + a.y * b.y + a.z * b.z),
       a.den * b.den)
Inverse(q) == Quat(-q.x, -q.y, -q.z, q.w, q.den)

\* getTwistForQuaternion: the twist before normalize(), over one common
\* denominator, negated when the projection faces the other way.
getTwistForQuaternion(q, direction) ==
  LET dotProd == direction.x * q.x + direction.y * q.y + direction.z * q.z
      dotDen == direction.den * q.den
      \* direction.scale(dotProd): components over direction.den * dotDen
      pden == direction.den * dotDen
      sign == IF dotProd < 0 THEN -1 ELSE 1
  IN Quat(sign * direction.x * dotProd * q.den,
          sign * direction.y * dotProd * q.den,
          sign * direction.z * dotProd * q.den,
          sign * q.w * pden,
          pden * q.den)

\* `2 * Math.acos(twist.w)` of the normalized twist: the angle is given by
\* its half-angle cosine w / sqrt(lengthSquared); a zero length leaves it
\* undefined.
twistAngle(twist) ==
  [w |-> twist.w,
   lengthSquared |-> twist.x * twist.x + twist.y * twist.y
                       + twist.z * twist.z + twist.w * twist.w]

\* getDeltaRotationOnAxis with the delta taken as end * start.
getDeltaRotationOnAxis_NoInverse(start, end, axis) ==
  LET axisQuaternion == Quat(axis.x, axis.y, axis.z, 0, axis.den)
      axisLocalQuaternion == multiply(multiply(start, axisQuaternion), Inverse(start))
      axisLocalVector == Vec(axisLocalQuaternion.x, axisLocalQuaternion.y,
                             axisLocalQuaternion.z, axisLocalQuaternion.den)
      delta == multiply(end, start)
  IN twistAngle(getTwistForQuaternion(delta, axisLocalVector))

\* getDeltaRotationOnAxis
getDeltaRotationOnAxis(start, end, axis) ==
  LET axisQuaternion == Quat(axis.x, axis.y, axis.z, 0, axis.den)
      axisLocalQuaternion == multiply(multiply(start, axisQuaternion), Inverse(start))
      axisLocalVector == Vec(axisLocalQuaternion.x, axisLocalQuaternion.y,
                             axisLocalQuaternion.z, axisLocalQuaternion.den)
      delta == multiply(end, Inverse(start))
  IN twistAngle(getTwistForQuaternion(delta, axisLocalVector))

\* Orientations: the unit quaternions whose components are whole multiples
\* of 1 / QuatDen (for halves: the identity, the axis half-turns and
\* quarter-turn products, and the third-turns about the diagonals).
Orientations ==
  LET c == (-QuatDen)..QuatDen IN
  {q \in [x : c, y : c, z : c, w : c, den : {QuatDen}] :
     q.x * q.x + q.y * q.y + q.z * q.z + q.w * q.w = QuatDen * QuatDen}

\* wheelRotationVector, armRotationVector, clawRotationVector
RotationVectors == {Vec(0, -1, 0, 1), Vec(1, 0, 0, 1), Vec(0, 0, -1, 1)}

TwistInit ==
  /\ CoreInit
  /\ \E s \in Orientations, e \in Orientations, a \in RotationVectors :
       call = [fn |-> "getDeltaRotationOnAxis", done |-> FALSE,
               start |-> s, end |-> e, axis |-> a,
               result |-> [w |-> 0, lengthSquared |-> 0]]

TwistCall ==
  /\ call.fn = "getDeltaRotationOnAxis"
  /\ ~call.done
  /\ call' = [call EXCEPT !.done = TRUE,
                          !.result = getDeltaRotationOnAxis(call.start, call.end,
                                                            call.axis)]
  /\ UNCHANGED <<space, store, live, lifecycle, rig, frame, hist>>

TwistNext == TwistCall

SpecTwist == TwistInit /\ [][TwistNext]_vars

TwistDone == call.fn = "getDeltaRotationOnAxis" /\ call.done

\* The returned angle is 2 * acos(1) = 0.
AngleIsZero(r) == r.lengthSquared > 0 /\ r.w > 0 /\ r.w * r.w = r.lengthSquared

\* C21: for every orientation q and each rotation axis,
\* getDeltaRotationOnAxis(q, q, axis) returns the angle 0, and the twist it
\* normalizes has a non-zero length.
C21_BaselineIdempotence ==
  (TwistDone /\ call.start = call.end) => AngleIsZero(call.result)

C21_Witness ==
  /\ TwistDone
  /\ call.start = call.end
  /\ call.start.x # 0 /\ call.start.y # 0 /\ call.start.z # 0
  /\ AngleIsZero(call.result)

\* ------------------------------------------------------- pointer tap
\* Node ids of the working scene are 1..MaxNodes.
MaxNodes == 2

UNSELECT_ALL == [type |-> "unselect-all", id |-> Undefined]
selectNode(id) == [type |-> "select-node", id |-> id]

\* `nodes[id]?.editable`: an id without a node, or a node that is not
\* editable, is falsy.
Editable(nodes, id) == id \in DOMAIN nodes /\ nodes[id] = "editable"

\* onPointerTap_ that selects whatever node was hit.
onPointerTap_AnyNode(hit, metadata, workingScene) ==
  IF ~hit THEN <<UNSELECT_ALL>>
  ELSE <<selectNode(metadata)>>

\* onPointerTap_: the actions dispatched for a tap whose pick has the given
\* hit flag and picked-mesh metadata.
onPointerTap_(hit, metadata, workingScene) ==
  IF ~hit THEN <<UNSELECT_ALL>>
  ELSE LET id == metadata
           prevId == workingScene.selectedNodeId
       IN IF id # prevId /\ Editable(workingScene.nodes, id)
            THEN <<selectNode(id)>>
            ELSE <<UNSELECT_ALL>>

\* Working scenes: every node editable, not editable or absent; a selected
\* node id or none.
TapScenes ==
  [nodes : [1..MaxNodes -> {"editable", "fixed", "absent"}],
   selectedNodeId : {Undefined} \cup 1..MaxNodes]

\* mesh.metadata of the picked mesh: a node id, or undefined.
TapMetadata == {Undefined} \cup 1..MaxNodes

TapInit ==
  /\ CoreInit
  /\ \E h \in BOOLEAN, m \in TapMetadata, ws \in TapScenes :
       call = [fn |-> "onPointerTap_", done |-> FALSE, hit |-> h,
               metadata |-> m, workingScene |-> ws, dispatched |-> <<>>]

TapCall ==
  /\ call.fn = "onPointerTap_"
  /\ ~call.done
  /\ call' = [call EXCEPT !.done = TRUE,
                          !.dispatched = onPointerTap_(call.hit, call.metadata,
                                                       call.workingScene)]
  /\ UNCHANGED <<space, store, live, lifecycle, rig, frame, hist>>

TapNext == TapCall

SpecTap == TapInit /\ [][TapNext]_vars

TapDone == call.fn = "onPointerTap_" /\ call.done

\* The pick hit a mesh of an editable node other than the selected one.
TapSelects ==
  /\ call.hit
  /\ call.metadata # call.workingScene.selectedNodeId
  /\ call.metadata \in 1..MaxNodes
  /\ call.workingScene.nodes[call.metadata] = "editable"

\* C22: every tap dispatches exactly one request: select-node(id) exactly
\* when the pick hit a mesh whose node id differs from the selected one
\* and that node is editable, unselect-all in every other case.
C22_PickResolution ==
  TapDone =>
    /\ Len(call.dispatched) = 1
    /\ IF TapSelects
         THEN call.dispatched[1] = selectNode(call.metadata)
         ELSE call.dispatched[1] = UNSELECT_ALL

C22_Witness ==
  /\ TapDone
  /\ call.hit
  /\ call.metadata = 1
  /\ call.workingScene.selectedNodeId = 2
  /\ call.workingScene.nodes[1] = "editable"
  /\ call.dispatched = <<selectNode(1)>>

\* ------------------------------------------- joint angles of a frame
\* The angles the after-render callback uses for the four joints, given
\* what getDeltaRotationOnAxis returned for each: the servo angles of
\* setServoPositions and the wheel rotations of the encoder pass.
jointAngles(leftRead, rightRead, armRead, clawRead) ==
  LET encoder == encoderPass(<<0, 0, 0, 0>>, leftRead, rightRead) IN
  [left |-> encoder.leftRotation,
   right |-> encoder.rightRotation,
   arm |-> wrapServoRotation(armRead),
   claw |-> wrapServoRotation(clawRead)]

AnglesInit ==
  /\ CoreInit
  /\ \E l \in WheelReads, r \in WheelReads, a \in WheelReads, c \in WheelReads :
       call = [fn |-> "jointAngles", done |-> FALSE,
               leftRead |-> l, rightRead |-> r, armRead |-> a, clawRead |-> c,
               result |-> jointAngles(0, 0, 0, 0)]

AnglesCall ==
  /\ call.fn = "jointAngles"
  /\ ~call.done
  /\ call' = [call EXCEPT !.done = TRUE,
                          !.result = jointAngles(call.leftRead, call.rightRead,
                                                 call.armRead, call.clawRead)]
  /\ UNCHANGED <<space, store, live, lifecycle, rig, frame, hist>>

AnglesNext == AnglesCall

SpecAngles == AnglesInit /\ [][AnglesNext]_vars

AnglesDone == call.fn = "jointAngles" /\ call.done

InHalfOpenTurn(a) == -Pi < a /\ a <= Pi

\* C23: the angle used for each of the four joints after the wrap lies in
\* (-pi, pi], and a raw angle of exactly pi stays pi.
C23_AngleRange ==
  AnglesDone =>
    /\ InHalfOpenTurn(call.result.left)
    /\ InHalfOpenTurn(call.result.right)
    /\ InHalfOpenTurn(call.result.arm)
    /\ InHalfOpenTurn(call.result.claw)
    /\ call.leftRead = Pi => call.result.left = Pi
    /\ call.rightRead = Pi => call.result.right = Pi
    /\ call.armRead = Pi => call.result.arm = Pi
    /\ call.clawRead = Pi => call.result.claw = Pi

\* -------------------------------------------- encoder accumulation
\* Frames examined in a row.
MaxFrames == 3

RECURSIVE GCD(_, _)
GCD(a, b) == IF b = 0 THEN a ELSE GCD(b, a % b)

\* A quotient in lowest terms (the value is unchanged).
Reduce(q) ==
  LET g == GCD(Abs(q.num), q.den) IN Quotient(q.num \div g, q.den \div g)

\* `WHEEL_TICKS_PER_RADIAN = 2048 / (2 * Math.PI)`
WHEEL_TICKS_PER_RADIAN == Reduce(Quotient(WheelTicks, 2 * Pi))

\* motorPositions[i] + rotation * WHEEL_TICKS_PER_RADIAN, for a motor
\* position that is itself a quotient.
addRotation(position, rotation) ==
  Reduce(Quotient(position.num * WHEEL_TICKS_PER_RADIAN.den
                    + rotation * WHEEL_TICKS_PER_RADIAN.num * position.den,
                  position.den * WHEEL_TICKS_PER_RADIAN.den))

\* What getDeltaRotationOnAxis returns for a wheel turning about its axis:
\* the turn from the previous to the current orientation, in [0, 2 Pi).
wheelRead(prev, curr) == (curr - prev) % (2 * Pi)

\* The encoder part of the after-render callback that keeps the previous
\* wheel rotations as they were.
encoderFrame_KeepPrev(wheels, curr) ==
  [motorPositions |->
     <<addRotation(wheels.motorPositions[1],
                   wrapWheelRotation(wheelRead(wheels.prev[1], curr[1]))),
       Quotient(0, 1), Quotient(0, 1),
       addRotation(wheels.motorPositions[4],
                   wrapWheelRotation(wheelRead(wheels.prev[2], curr[2])))>>,
   prev |-> wheels.prev]

\* The encoder part of the after-render callback over a frame: the motor
\* positions dispatched and the previous wheel rotations stored, given the
\* robot state's motor positions, the stored previous rotations and the
\* current wheel-to-body orientations.
encoderFrame(wheels, curr) ==
  [motorPositions |->
     <<addRotation(wheels.motorPositions[1],
                   wrapWheelRotation(wheelRead(wheels.prev[1], curr[1]))),
       Quotient(0, 1), Quotient(0, 1),
       addRotation(wheels.motorPositions[4],
                   wrapWheelRotation(wheelRead(wheels.prev[2], curr[2])))>>,
   prev |-> curr]

\* Turns of a wheel within one frame: whole steps up to a half turn either
\* way.
FrameTurns == {(k * Pi) \div EncoderSteps : k \in (-EncoderSteps)..EncoderSteps}

\* After loadMeshes: the baseline wheel orientations are stored, and the
\* robot state holds some motor positions.
OdometryInit ==
  /\ CoreInit
  /\ \E m \in MotorPositions, base \in {0, (3 * Pi) \div 2} :
       call = [fn |-> "encoderFrame", frames |-> 0,
               start |-> m,
               turned |-> <<0, 0>>,
               small |-> TRUE,
               orientation |-> <<base, base>>,
               wheels |-> [motorPositions |-> <<Quotient(m[1], 1), Quotient(0, 1),
                                                Quotient(0, 1), Quotient(m[4], 1)>>,
                           prev |-> <<base, base>>]]

\* One frame: the physics step turns the wheels, then the after-render
\* callback runs its encoder pass.  `turned` is the net turn since the
\* baseline and `small` tells whether every turn so far was under a half
\* turn.
OdometryFrame ==
  /\ call.fn = "encoderFrame"
  /\ call.frames < MaxFrames
  /\ \E dl \in FrameTurns, dr \in FrameTurns :
       LET curr == <<(call.orientation[1] + dl) % (2 * Pi),
                     (call.orientation[2] + dr) % (2 * Pi)>>
       IN call' = [call EXCEPT
                     !.frames = @ + 1,
                     !.turned = <<@[1] + dl, @[2] + dr>>,
                     !.small = @ /\ Abs(dl) < Pi /\ Abs(dr) < Pi,
                     !.orientation = curr,
                     !.wheels = encoderFrame(@, curr)]
  /\ UNCHANGED <<space, store, live, lifecycle, rig, frame, hist>>

OdometryNext == OdometryFrame

SpecOdometry == OdometryInit /\ [][OdometryNext]_vars

\* position = start + turned * WHEEL_TICKS_PER_RADIAN
TicksMatch(position, start, turned) ==
  position = addRotation(Quotient(start, 1), turned)

\* C24: after every frame the stored previous wheel rotations are the
\* current ones, and as long as every frame's turn was under a half turn
\* the motor positions are the starting ones plus the net turn since the
\* baseline times WHEEL_TICKS_PER_RADIAN.
C24_EncoderAccumulation ==
  call.fn = "encoderFrame" =>
    /\ call.wheels.prev = call.orientation
    /\ call.small =>
         /\ TicksMatch(call.wheels.motorPositions[1], call.start[1], call.turned[1])
         /\ TicksMatch(call.wheels.motorPositions[4], call.start[4], call.turned[2])

C24_Witness ==
  /\ call.fn = "encoderFrame"
  /\ call.frames = MaxFrames
  /\ call.small
  /\ call.turned[1] > 2 * Pi
  /\ call.turned[2] < 0
  /\ call.start[1] # 0
  /\ TicksMatch(call.wheels.motorPositions[1], call.start[1], call.turned[1])

\* ------------------------------------------ reconciliation, repeated
\* The reducer applying what updateStore_ dispatched: setNodeBatch replaces
\* the node, setRobotOrigin the robot's origin; nothing dispatched leaves
\* the working scene as it is.
applyUpdate(node, target, update) ==
  IF update = <<>> THEN node
  ELSE IF target = "node" THEN update[1]
  ELSE [node EXCEPT !.origin = update[1]]

\* A node (or the robot) whose live pose differs from its origin, as in
\* OriginInit, before the first of several frames.
SettleInit ==
  /\ CoreInit
  /\ \E origin \in Origins, off \in LiveOffsets, turn \in LiveTurns,
        subject \in {<<"node", "mesh">>, <<"node", "light">>,
                     <<"node", "none">>, <<"robot", "mesh">>} :
       /\ subject[2] # "mesh" => turn = 0
       /\ subject[2] = "none" => off = <<0, 0, 0>>
       /\ call = [fn |-> "updateStore_ frames", frames |-> 0, updates |-> 0,
                  target |-> subject[1],
                  node |-> [name |-> subject[1], visible |-> TRUE, origin |-> origin],
                  bNode |-> LivePose(origin, subject[2], off, turn),
                  result |-> <<>>]

\* A frame in which the live pose stays as it is: updateStore_ runs over
\* the node (or the robot) and the store applies what it dispatched.
SettleFrame ==
  /\ call.fn = "updateStore_ frames"
  /\ call.frames < MaxFrames
  /\ LET update == IF call.target = "node"
                     THEN nodeUpdate(call.node, call.bNode)
                     ELSE robotUpdate(call.node.origin, call.bNode)
     IN call' = [call EXCEPT
                   !.frames = @ + 1,
                   !.updates = @ + Len(update),
                   !.result = update,
                   !.node = applyUpdate(@, call.target, update)]
  /\ UNCHANGED <<space, store, live, lifecycle, rig, frame, hist>>

SettleNext == SettleFrame

SpecSettle == SettleInit /\ [][SettleNext]_vars

\* C25: with the live pose unchanged, at most one update is ever emitted
\* for a node (or the robot), and none in any frame after the first.
C25_NoFeedbackLoop ==
  call.fn = "updateStore_ frames" =>
    /\ call.updates <= 1
    /\ call.frames >= 2 => call.result = <<>>

C25_Witness ==
  /\ call.fn = "updateStore_ frames"
  /\ call.frames = 2
  /\ call.updates = 1
  /\ call.result = <<>>
  /\ call.node.origin.position # <<>>
  /\ call.node.origin.position[1][1].type = "meters"
  /\ call.node.origin.position[1][1].value # 0
  /\ call.bNode.rotationQuaternion # 0

\* ------------------------------------------------ baselines and drive
\* C26: every after-render pass, the only place where setMotor is called
\* on a joint, runs with the baselines recorded (and the rig complete).
C26_BaselinesBeforeDrive ==
  [][(frame.pc = "render" /\ frame'.pc = "idle")
       => (rig.baselines /\ ~rig.error /\ Cardinality(rig.joints) = 4)]_vars

\* A frame has drawn (the physics step moved the robot), so setMotor has
\* been called on the joints.
C26_Witness ==
  /\ frame.pc = "idle"
  /\ lifecycle.renderLoop
  /\ live.robot # 0
  /\ rig.baselines

\* ------------------------------------------------- rig assembly order
\* One thing loadMeshes does to a mesh.
Step(op, mesh, to) == [op |-> op, mesh |-> mesh, to |-> to]

Thrown(steps) == steps # <<>> /\ steps[Len(steps)].op = "throw"
\* b follows a unless a ended in an exception.
Then(a, b) == IF Thrown(a) THEN a ELSE a \o b

\* `new Babylon.Mesh(name)` placed at a collider that is looked up first; a
\* null lookup throws at computeWorldMatrix.
rootSteps(root, at, present) ==
  IF at \in present THEN <<Step("createRoot", root, at)>>
  ELSE <<Step("throw", at, "TypeError")>>

\* The loop body with the collider attached before the mesh is unparented.
colliderSteps_ImpostorFirst(name, root) ==
  << Step("impostor", name, "mass 0"),
     Step("unparent", name, "null"),
     Step("fixNegativeScaling", name, "baked"),
     Step("parent", name, root) >>

\* The loop body of a manifest loop for a mesh that was found:
\* setParent(null), fixNegativeScaling, a mass-0 impostor, setParent(root).
colliderSteps(name, root) ==
  << Step("unparent", name, "null"),
     Step("fixNegativeScaling", name, "baked"),
     Step("impostor", name, "mass 0"),
     Step("parent", name, root) >>

RECURSIVE manifestSteps(_, _, _)
\* A manifest loop; a mesh that is not found throws.
manifestSteps(infos, root, present) ==
  IF infos = <<>> THEN <<>>
  ELSE IF Head(infos) \notin present
    THEN <<Step("throw", Head(infos), "failed to find collider mesh")>>
    ELSE Then(colliderSteps(Head(infos), root),
              manifestSteps(Tail(infos), root, present))

\* The wheels: unparented left then right, then their scales fixed.
wheelSteps(present) ==
  IF "collider_left_wheel" \notin present
    THEN <<Step("throw", "collider_left_wheel", "TypeError")>>
  ELSE IF "collider_right_wheel" \notin present
    THEN << Step("unparent", "collider_left_wheel", "null"),
            Step("throw", "collider_right_wheel", "TypeError") >>
  ELSE << Step("unparent", "collider_left_wheel", "null"),
          Step("unparent", "collider_right_wheel", "null"),
          Step("fixNegativeScaling", "collider_left_wheel", "baked"),
          Step("fixNegativeScaling", "collider_right_wheel", "baked") >>

\* The baselines, the rigid bodies of the roots and wheels, the joints.
finishSteps ==
  << Step("baseline", "collider_left_wheel", "bodyCompoundMesh"),
     Step("baseline", "collider_right_wheel", "bodyCompoundMesh"),
     Step("baseline", "armCompoundMesh", "bodyCompoundMesh"),
     Step("baseline", "clawCenterMesh", "armCompoundMesh"),
     Step("impostor", "bodyCompoundMesh", "rigid body"),
     Step("impostor", "collider_left_wheel", "rigid body"),
     Step("impostor", "collider_right_wheel", "rigid body"),
     Step("impostor", "armCompoundMesh", "rigid body"),
     Step("impostor", "clawCenterMesh", "rigid body"),
     Step("addJoint", "armCompoundMesh", "clawCenterMesh"),
     Step("addJoint", "bodyCompoundMesh", "armCompoundMesh"),
     Step("addJoint", "bodyCompoundMesh", "collider_right_wheel"),
     Step("addJoint", "bodyCompoundMesh", "collider_left_wheel") >>

\* loadMeshes after the import, as the sequence of its steps on the rig,
\* ended by the first exception.
loadMeshesSteps(present) ==
  LET roots == Then(Then(rootSteps("bodyCompoundMesh", "collider_wallaby", present),
                         rootSteps("armCompoundMesh", "collider_claw_servo", present)),
                    rootSteps("clawCenterMesh", "collider_claw_3", present))
      body == Then(roots, manifestSteps(bodyColliderMeshInfos, "bodyCompoundMesh", present))
      arm == Then(body, manifestSteps(armColliderMeshInfos, "armCompoundMesh", present))
      claw == Then(arm, manifestSteps(clawColliderMeshInfos, "clawCenterMesh", present))
      wheels == Then(claw, wheelSteps(present))
  IN Then(wheels, finishSteps)

RigInit ==
  /\ CoreInit
  /\ \E missing \in SetsUpTo(MaxMissing) :
       call = [fn |-> "loadMeshes", present |-> RequiredMeshes \ missing,
               steps |-> loadMeshesSteps(RequiredMeshes \ missing), taken |-> 0]

\* loadMeshes takes its next step.
RigStep ==
  /\ call.fn = "loadMeshes"
  /\ call.taken < Len(call.steps)
  /\ call' = [call EXCEPT !.taken = @ + 1]
  /\ UNCHANGED <<space, store, live, lifecycle, rig, frame, hist>>

RigNext == RigStep

SpecRig == RigInit /\ [][RigNext]_vars

\* Where a step is among the steps taken so far (0: nowhere).
IndexOf(s) ==
  IF \E i \in 1..call.taken : call.steps[i] = s
    THEN CHOOSE i \in 1..call.taken : call.steps[i] = s
    ELSE 0
\* If b was taken, a was taken before it.
Precedes(a, b) == IndexOf(b) # 0 => (IndexOf(a) # 0 /\ IndexOf(a) < IndexOf(b))

\* The manifest colliders with their compound roots.
Manifest ==
  {<<m, "bodyCompoundMesh">> : m \in Range(bodyColliderMeshInfos)}
    \cup {<<m, "armCompoundMesh">> : m \in Range(armColliderMeshInfos)}
    \cup {<<m, "clawCenterMesh">> : m \in Range(clawColliderMeshInfos)}

RigidBodies ==
  {"bodyCompoundMesh", "armCompoundMesh", "clawCenterMesh",
   "collider_left_wheel", "collider_right_wheel"}

\* C27: every manifest collider is unparented, then fixed, then given its
\* mass-0 collider, then parented to its compound root; the roots and the
\* wheels get their rigid bodies only after every manifest collider has
\* been attached and parented; a joint is added only after both of its
\* bodies have their rigid bodies.
C27_RigAssemblyOrder ==
  call.fn = "loadMeshes" =>
    /\ \A c \in Manifest :
         /\ Precedes(Step("unparent", c[1], "null"),
                     Step("fixNegativeScaling", c[1], "baked"))
         /\ Precedes(Step("fixNegativeScaling", c[1], "baked"),
                     Step("impostor", c[1], "mass 0"))
         /\ Precedes(Step("impostor", c[1], "mass 0"), Step("parent", c[1], c[2]))
         /\ \A b \in RigidBodies :
              Precedes(Step("parent", c[1], c[2]), Step("impostor", b, "rigid body"))
    /\ \A i \in 1..call.taken :
         call.steps[i].op = "addJoint" =>
           /\ Precedes(Step("impostor", call.steps[i].mesh, "rigid body"), call.steps[i])
           /\ Precedes(Step("impostor", call.steps[i].to, "rigid body"), call.steps[i])

C27_Witness ==
  /\ call.fn = "loadMeshes"
  /\ call.present = RequiredMeshes
  /\ call.taken = Len(call.steps)
  /\ IndexOf(Step("addJoint", "bodyCompoundMesh", "collider_left_wheel")) = call.taken
  /\ IndexOf(Step("parent", "collider_claw_3_metal", "clawCenterMesh")) # 0

\* ----------------------------------------- effects of the after-render
\* Something a function does outside itself: a call on a joint or on a
\* body, or a dispatch to the store.
Effect(by, kind, on) == [by |-> by, kind |-> kind, on |-> on]

\* setDriveMotors that also posts the speeds it applied to the store.
driveEffects_WriteBack(leftSpeed, rightSpeed) ==
  <<Effect("setDriveMotors", "setMotor", "leftWheelJoint"),
    Effect("setDriveMotors", "setMotor", "rightWheelJoint"),
    Effect("setDriveMotors", "dispatch", "setRobotState")>>

\* What setDriveMotors does: a setMotor call per command on the wheel
\* joints, and setAngularVelocity on the wheel of a zero speed.
driveEffects(leftSpeed, rightSpeed) ==
  LET r == setDriveMotors(leftSpeed, rightSpeed, TRUE) IN
  [i \in 1..Len(r.leftWheelJoint) |->
     Effect("setDriveMotors", "setMotor", "leftWheelJoint")]
  \o [i \in 1..Len(r.rightWheelJoint) |->
        Effect("setDriveMotors", "setMotor", "rightWheelJoint")]
  \o (IF r.leftStopped
        THEN <<Effect("setDriveMotors", "setAngularVelocity", "collider_left_wheel")>>
        ELSE <<>>)
  \o (IF r.rightStopped
        THEN <<Effect("setDriveMotors", "setAngularVelocity", "collider_right_wheel")>>
        ELSE <<>>)

\* What setServoPositions does: a setMotor call per command on the servo
\* joints.
servoEffects(armRead, clawRead, goals) ==
  LET r == setServoPositions(armRead, clawRead, goals) IN
  [i \in 1..Len(r.armJoint) |-> Effect("setServoPositions", "setMotor", "armJoint")]
  \o [i \in 1..Len(r.clawJoint) |->
        Effect("setServoPositions", "setMotor", "clawJoint")]

\* An after-render callback that writes the two wheel slots and keeps the
\* other motor positions.
afterRender_KeepSlots(robotState, reads) ==
  LET encoder == encoderPass(robotState.motorPositions, reads.left, reads.right) IN
  [effects |-> <<Effect("after-render", "dispatch", "setRobotState")>>,
   robotState |->
     [robotState EXCEPT !.motorPositions =
        <<encoder.motorPositions[1], Quotient(robotState.motorPositions[2], 1),
          Quotient(robotState.motorPositions[3], 1), encoder.motorPositions[4]>>]]

\* The after-render callback: its effects in order and the robot state held
\* by the store after it.
afterRender(robotState, reads) ==
  LET encoder == encoderPass(robotState.motorPositions, reads.left, reads.right) IN
  [effects |->
     driveEffects(robotState.motorSpeeds[1], robotState.motorSpeeds[4])
       \o servoEffects(reads.arm, reads.claw, robotState.servoPositions)
       \o <<Effect("after-render", "dispatch", "setRobotState")>>,
   robotState |-> [robotState EXCEPT !.motorPositions = encoder.motorPositions]]

\* Robot states written by the program being run, and the rotations read
\* in the frame.
RobotStates ==
  [motorSpeeds : {<<l, 0, 0, r>> : l \in {0, WheelSpeedDivisor},
                                   r \in {0, -WheelSpeedDivisor}},
   servoPositions : {<<a, 0, 0, c>> : a \in ServoGoals, c \in ServoGoals},
   motorPositions : MotorPositions]

FrameReads ==
  [left : {0, Pi \div 2}, right : {0, (3 * Pi) \div 2},
   arm : {0, Pi}, claw : {0, Pi \div 2}]

AfterRenderInit ==
  /\ CoreInit
  /\ \E rs \in RobotStates, reads \in FrameReads :
       call = [fn |-> "afterRender", done |-> FALSE, robotState |-> rs,
               reads |-> reads, effects |-> <<>>, stored |-> rs]

AfterRenderCall ==
  /\ call.fn = "afterRender"
  /\ ~call.done
  /\ LET r == afterRender(call.robotState, call.reads) IN
     call' = [call EXCEPT !.done = TRUE, !.effects = r.effects,
                          !.stored = r.robotState]
  /\ UNCHANGED <<space, store, live, lifecycle, rig, frame, hist>>

AfterRenderNext == AfterRenderCall

SpecAfterRender == AfterRenderInit /\ [][AfterRenderNext]_vars

AfterRenderDone == call.fn = "afterRender" /\ call.done

\* C28: setDriveMotors and setServoPositions act on joints and bodies only
\* and dispatch nothing; the after-render pass writes the robot state
\* once, after them, and that write is the encoder update (the motor
\* positions).
C28_ControllerNeverWritesRobotState ==
  AfterRenderDone =>
    LET n == Len(call.effects) IN
    /\ n >= 1
    /\ call.effects[n] = Effect("after-render", "dispatch", "setRobotState")
    /\ \A i \in 1..(n - 1) :
         /\ call.effects[i].by \in {"setDriveMotors", "setServoPositions"}
         /\ call.effects[i].kind \in {"setMotor", "setAngularVelocity"}
    /\ call.stored.motorSpeeds = call.robotState.motorSpeeds
    /\ call.stored.servoPositions = call.robotState.servoPositions

C28_Witness ==
  /\ AfterRenderDone
  /\ Len(call.effects) = 6
  /\ call.effects[3].kind = "setAngularVelocity"
  /\ call.robotState.motorSpeeds[4] # 0
  /\ call.stored.motorPositions[4].num
       # call.robotState.motorPositions[4] * call.stored.motorPositions[4].den

\* ------------------------------------- a dispatch of updateStore_ throws
\* updateStore_ when its dispatch number `at` (1: setNodeBatch, 2:
\* setRobotOrigin) throws, in the reducer (the store keeps its state and no
\* listener runs) or in a listener called after the listener of Space.
\* The exception leaves updateStore_ before the statement that clears
\* debounceUpdate_: there is no try/finally around the dispatches.
updateStoreThrown(p, st, lv, subscribed, at, inReducer) ==
  LET origins == st.scenes[st.workingScene]
      nodeOriginChange == getSignificantOriginChange(origins.node, lv.node)
      robotOriginChange == getSignificantOriginChange(origins.robot, lv.robot)
      p0 == [p EXCEPT !.s.debounceUpdate_ = TRUE]
      st1 == IF nodeOriginChange # <<>> /\ ~(at = 1 /\ inReducer)
               THEN NewScene(st, [origins EXCEPT !.node = nodeOriginChange[1]])
               ELSE st
      p1 == IF nodeOriginChange # <<>> /\ ~(at = 1 /\ inReducer)
              THEN Notify(p0, subscribed, st1.workingScene)
              ELSE p0
      st2 == IF robotOriginChange # <<>> /\ at = 2 /\ ~inReducer
               THEN NewScene(st1, [st1.scenes[st1.workingScene]
                                     EXCEPT !.robot = robotOriginChange[1]])
               ELSE st1
      p2 == IF robotOriginChange # <<>> /\ at = 2 /\ ~inReducer
              THEN Notify(p1, subscribed, st2.workingScene)
              ELSE p1
  IN [p |-> p2,
      store |-> st2,
      thrown |-> IF at = 1 THEN nodeOriginChange # <<>>
                           ELSE robotOriginChange # <<>>]

\* The render loop callback when updateStore_ throws: scene.render() is
\* not reached and the frame ends.
FrameUpdateStoreThrows ==
  /\ frame.pc = "idle"
  /\ lifecycle.renderLoop
  /\ store.nextScene + ScenesNeeded(store, live) <= MaxSceneId + 1
  /\ \E at \in 1..2, inReducer \in BOOLEAN :
       LET u == updateStoreThrown([s |-> space, h |-> hist], store, live,
                                  lifecycle.storeSubscription_, at, inReducer)
       IN /\ u.thrown
          /\ space' = u.p.s
          /\ hist' = u.p.h
          /\ store' = u.store
  /\ UNCHANGED <<live, lifecycle, rig, frame, call>>

ThrowNext ==
  \/ EnsureInitialized
  \/ CreateSceneSettle
  \/ ImportMeshSettle
  \/ WhenReadySettle
  \/ DispatchSceneChange
  \/ DispatchRobotState
  \/ SetSceneSettle
  \/ FrameUpdateStore
  \/ FrameUpdateStoreThrows
  \/ FrameRender

SpecThrow == Init /\ [][ThrowNext]_vars

\* C29: debounceUpdate_ is false whenever updateStore_ is not running (no
\* state between two steps has updateStore_ running), also after a dispatch
\* inside updateStore_ has thrown.
C29_DebounceOnlyInsideUpdateStore == ~space.debounceUpdate_

\* ------------------------------------------------- Root: Run and Stop
\* Clicks on Run and Stop examined in one behaviour.
MaxClicks == 5

\* Root after its constructor: stopped, nothing compiling.  `compiles`
\* holds, for every compile(code) promise still pending, whether Stop was
\* clicked since the Run that started it.
NewRoot ==
  [simulatorState |-> "STOPPED", worker |-> "stopped", compiles |-> <<>>]

\* onRunClick_: setState(COMPILING) and, in its callback, compile(code).
onRunClick_(root) ==
  [root EXCEPT !.simulatorState = "COMPILING",
               !.compiles = Append(@, [stopped |-> FALSE])]

\* onStopClick_: WorkerInstance.stop() and setState(STOPPED).  The pending
\* compile promises are left alone (the flag is observation only).
onStopClick_(root) ==
  [root EXCEPT !.worker = "stopped",
               !.simulatorState = "STOPPED",
               !.compiles = [i \in 1..Len(@) |-> [stopped |-> TRUE]]]

\* The then-callback of compile(code): start the worker and setState(RUNNING).
compileThen(root, i) ==
  [root EXCEPT !.worker = "running",
               !.simulatorState = "RUNNING",
               !.compiles = RemoveAt(@, i)]

\* A catch-callback that reports the messages and leaves the state alone.
compileCatch_KeepCompiling(root, i) ==
  [root EXCEPT !.compiles = RemoveAt(@, i)]

\* The catch-callback of compile(code): setState(STOPPED) with the messages.
compileCatch(root, i) ==
  [root EXCEPT !.simulatorState = "STOPPED",
               !.compiles = RemoveAt(@, i)]

\* How a compile(code) promise settles: resolved with the JavaScript or
\* rejected with a CompileError.
CompileOutcomes == {"js", "CompileError"}

RootInit ==
  /\ CoreInit
  /\ call = [fn |-> "Root", root |-> NewRoot, clicks |-> 0,
             runSinceStop |-> FALSE, staleStart |-> FALSE,
             starts |-> 0, outcome |-> "none"]

RunClick ==
  /\ call.fn = "Root"
  /\ call.clicks < MaxClicks
  /\ call' = [call EXCEPT !.root = onRunClick_(@), !.clicks = @ + 1,
                          !.runSinceStop = TRUE]
  /\ UNCHANGED <<space, store, live, lifecycle, rig, frame, hist>>

StopClick ==
  /\ call.fn = "Root"
  /\ call.clicks < MaxClicks
  /\ call' = [call EXCEPT !.root = onStopClick_(@), !.clicks = @ + 1,
                          !.runSinceStop = FALSE]
  /\ UNCHANGED <<space, store, live, lifecycle, rig, frame, hist>>

CompileResolve ==
  /\ call.fn = "Root"
  /\ \E i \in 1..Len(call.root.compiles) :
       call' = [call EXCEPT !.root = compileThen(@, i),
                            !.staleStart = call.root.compiles[i].stopped,
                            !.starts = @ + 1, !.outcome = "js"]
  /\ UNCHANGED <<space, store, live, lifecycle, rig, frame, hist>>

CompileReject ==
  /\ call.fn = "Root"
  /\ \E i \in 1..Len(call.root.compiles) :
       call' = [call EXCEPT !.root = compileCatch(@, i),
                            !.outcome = "CompileError"]
  /\ UNCHANGED <<space, store, live, lifecycle, rig, frame, hist>>

RootNext ==
  \/ RunClick
  \/ StopClick
  \/ CompileResolve
  \/ CompileReject

SpecRoot == RootInit /\ [][RootNext]_vars

\* C30: after a click on Stop and until the next click on Run, the
\* simulator is not RUNNING and the worker is not running; a compile
\* started before the Stop that completes after it starts nothing.
C30_StopNotOverridden ==
  (call.fn = "Root" /\ ~call.runSinceStop) =>
    /\ call.root.simulatorState # "RUNNING"
    /\ call.root.worker # "running"

\* C31: a Run click moves the state to COMPILING and starts a compile; a
\* compile that succeeds starts the worker once and moves the state to
\* RUNNING; a compile that fails starts nothing and moves the state to
\* STOPPED; the state is not COMPILING when a compile has just settled.
RunClicked == Len(call'.root.compiles) = Len(call.root.compiles) + 1

CompileSettled == Len(call'.root.compiles) = Len(call.root.compiles) - 1

FullRobotStates ==
  [motorSpeeds : {<<0, 0, 0, 0>>, <<WheelSpeedDivisor, 7, 7, -WheelSpeedDivisor>>},
   servoPositions : {<<a, 0, 0, c>> : a \in ServoGoals, c \in ServoGoals},
   motorPositions : {<<m0, m1, m2, 100>> : m0 \in {0, 100}, m1 \in {0, 5}, m2 \in {0, -5}},
   analogValues : {<<0, 0, 0, 0, 0, 0>>, <<1000, 2000, 0, 0, 0, 0>>},
   digitalValues : {<<FALSE, FALSE>>, <<TRUE, FALSE>>}]

FrameEffectInit ==
  /\ CoreInit
  /\ \E rs \in FullRobotStates, reads \in FrameReads :
       call = [fn |-> "afterRender", done |-> FALSE, robotState |-> rs,
               reads |-> reads, effects |-> <<>>, stored |-> rs]

SpecFrameEffect == FrameEffectInit /\ [][AfterRenderNext]_vars

\* C32: the robot state written by the after-render pass equals the one read
\* at its start in every field but motorPositions, and motorPositions holds
\* the two wheel positions in slots 0 and 3 and 0 in slots 1 and 2,
\* whatever these slots held.
C32_EncoderFrameEffect ==
  AfterRenderDone =>
    /\ DOMAIN call.stored = DOMAIN call.robotState
    /\ \A f \in DOMAIN call.robotState \ {"motorPositions"} :
         call.stored[f] = call.robotState[f]
    /\ Len(call.stored.motorPositions) = 4
    /\ call.stored.motorPositions[1]
         = motorPosition(call.robotState.motorPositions[1],
                         wrapWheelRotation(call.reads.left))
    /\ call.stored.motorPositions[4]
         = motorPosition(call.robotState.motorPositions[4],
                         wrapWheelRotation(call.reads.right))
    /\ call.stored.motorPositions[2].num = 0
    /\ call.stored.motorPositions[3].num = 0

C32_Witness ==
  /\ AfterRenderDone
  /\ "digitalValues" \in DOMAIN call.robotState
  /\ call.robotState.motorPositions[2] # 0
  /\ call.robotState.motorPositions[3] # 0
  /\ call.robotState.analogValues[1] # 0
  /\ call.stored.motorPositions[2].num = 0

\* ------------------------------------------------------- overlay layout
\* The type of each named size of Widget.
SizeType ==
  [MINIATURE_LEFT |-> "Miniature", PARTIAL_LEFT |-> "Partial",
   PARTIAL_RIGHT |-> "Partial", PARTIAL_DOWN |-> "Partial",
   MAXIMIZED |-> "Maximized", MINIMIZED |-> "Minimized"]

\* The sizes a widget offers (index 0 of the code is element 1 here).
EDITOR_SIZES == <<"MINIATURE_LEFT", "PARTIAL_LEFT", "MAXIMIZED", "MINIMIZED">>
INFO_SIZES == <<"PARTIAL_RIGHT", "MINIMIZED">>
WORLD_SIZES == <<"PARTIAL_RIGHT", "MINIMIZED">>
CONSOLE_SIZES == <<"MINIATURE_LEFT", "PARTIAL_DOWN", "MAXIMIZED", "MINIMIZED">>

\* sizeDict: from a size type to the index of the last size of that type
\* in the list; render looks the widget's size type up in it.
sizeDict(sizes) ==
  [type \in {SizeType[sizes[i]] : i \in 1..Len(sizes)} |->
     (CHOOSE i \in 1..Len(sizes) :
        /\ SizeType[sizes[i]] = type
        /\ \A j \in 1..Len(sizes) : SizeType[sizes[j]] = type => j <= i) - 1]

\* The state of OverlayLayout after its constructor.
NewOverlay ==
  [editorSize |-> "Miniature", infoSize |-> "Partial",
   consoleSize |-> "Miniature", worldSize |-> "Partial"]

\* onEditorSizeChange_ that leaves the console as it is when maximizing.
onEditorSizeChange_KeepConsole(state, index) ==
  LET type == SizeType[EDITOR_SIZES[index + 1]] IN
  [state EXCEPT !.editorSize = type,
                !.infoSize = IF type = "Maximized" THEN "Minimized" ELSE @]

\* onEditorSizeChange_: the locals infoSize, consoleSize and worldSize are
\* adjusted; setState writes editorSize, infoSize and consoleSize (the
\* local worldSize is not written back).
onEditorSizeChange_(state, index) ==
  LET type == SizeType[EDITOR_SIZES[index + 1]]
      infoSize == CASE type = "Maximized" -> "Minimized"
                    [] type = "Partial" /\ state.infoSize = "Minimized" -> "Partial"
                    [] OTHER -> state.infoSize
      consoleSize == CASE type = "Maximized" -> "Minimized"
                       [] type = "Partial" /\ state.consoleSize = "Minimized"
                            -> "Miniature"
                       [] OTHER -> state.consoleSize
  IN [state EXCEPT !.editorSize = type,
                   !.infoSize = infoSize,
                   !.consoleSize = consoleSize]

onInfoSizeChange_(state, index) == [state EXCEPT !.infoSize = SizeType[INFO_SIZES[index + 1]]]

onWorldSizeChange_(state, index) == [state EXCEPT !.worldSize = SizeType[WORLD_SIZES[index + 1]]]

\* onConsoleSizeChange_: setState writes consoleSize, infoSize and
\* editorSize (the local worldSize is not written back).
onConsoleSizeChange_(state, index) ==
  LET type == SizeType[CONSOLE_SIZES[index + 1]]
      infoSize == CASE type = "Maximized" -> "Minimized"
                    [] type = "Partial" /\ state.infoSize = "Minimized" -> "Partial"
                    [] OTHER -> state.infoSize
      editorSize == CASE type = "Maximized" -> "Minimized"
                      [] type = "Partial" /\ state.editorSize = "Minimized"
                           -> "Partial"
                      [] OTHER -> state.editorSize
  IN [state EXCEPT !.consoleSize = type,
                   !.infoSize = infoSize,
                   !.editorSize = editorSize]

showAll(state) == NewOverlay

hideAll(state) ==
  [editorSize |-> "Minimized", infoSize |-> "Minimized",
   consoleSize |-> "Minimized", worldSize |-> "Minimized"]

OverlayInit ==
  /\ CoreInit
  /\ call = [fn |-> "OverlayLayout", state |-> NewOverlay,
             last |-> [handler |-> "constructor", type |-> "none"]]

\* One action per handler; `last` names the handler that ran and the size
\* type it was asked for.
EditorSizeChange ==
  /\ call.fn = "OverlayLayout"
  /\ \E index \in 0..(Len(EDITOR_SIZES) - 1) :
       call' = [call EXCEPT !.state = onEditorSizeChange_(@, index),
                            !.last = [handler |-> "editor", type |-> SizeType[EDITOR_SIZES[index + 1]]]]
  /\ UNCHANGED <<space, store, live, lifecycle, rig, frame, hist>>

InfoSizeChange ==
  /\ call.fn = "OverlayLayout"
  /\ \E index \in 0..(Len(INFO_SIZES) - 1) :
       call' = [call EXCEPT !.state = onInfoSizeChange_(@, index),
                            !.last = [handler |-> "info", type |-> SizeType[INFO_SIZES[index + 1]]]]
  /\ UNCHANGED <<space, store, live, lifecycle, rig, frame, hist>>

WorldSizeChange ==
  /\ call.fn = "OverlayLayout"
  /\ \E index \in 0..(Len(WORLD_SIZES) - 1) :
       call' = [call EXCEPT !.state = onWorldSizeChange_(@, index),
                            !.last = [handler |-> "world", type |-> SizeType[WORLD_SIZES[index + 1]]]]
  /\ UNCHANGED <<space, store, live, lifecycle, rig, frame, hist>>

ConsoleSizeChange ==
  /\ call.fn = "OverlayLayout"
  /\ \E index \in 0..(Len(CONSOLE_SIZES) - 1) :
       call' = [call EXCEPT !.state = onConsoleSizeChange_(@, index),
                            !.last = [handler |-> "console", type |-> SizeType[CONSOLE_SIZES[index + 1]]]]
  /\ UNCHANGED <<space, store, live, lifecycle, rig, frame, hist>>

ShowAll ==
  /\ call.fn = "OverlayLayout"
  /\ call' = [call EXCEPT !.state = showAll(@),
                          !.last = [handler |-> "showAll", type |-> "none"]]
  /\ UNCHANGED <<space, store, live, lifecycle, rig, frame, hist>>

HideAll ==
  /\ call.fn = "OverlayLayout"
  /\ call' = [call EXCEPT !.state = hideAll(@),
                          !.last = [handler |-> "hideAll", type |-> "none"]]
  /\ UNCHANGED <<space, store, live, lifecycle, rig, frame, hist>>

OverlayNext ==
  \/ EditorSizeChange
  \/ InfoSizeChange
  \/ WorldSizeChange
  \/ ConsoleSizeChange
  \/ ShowAll
  \/ HideAll

SpecOverlay == OverlayInit /\ [][OverlayNext]_vars

OverlayRuns == call.fn = "OverlayLayout"

Maximized(handler) ==
  OverlayRuns /\ call.last = [handler |-> handler, type |-> "Maximized"]

\* C33: right after the editor is set to Maximized, info, console and world
\* are Minimized; right after the console is set to Maximized, info, editor
\* and world are Minimized.
C33_MaximizeTakesOver ==
  /\ Maximized("editor") =>
       /\ call.state.infoSize = "Minimized"
       /\ call.state.consoleSize = "Minimized"
       /\ call.state.worldSize = "Minimized"
  /\ Maximized("console") =>
       /\ call.state.infoSize = "Minimized"
       /\ call.state.editorSize = "Minimized"
       /\ call.state.worldSize = "Minimized"

\* C34: every widget's size type is one of the types of its size list, so
\* the index render looks up is defined, and the editor and the console
\* are never both Maximized.
C34_SizesStayValid ==
  OverlayRuns =>
    /\ call.state.editorSize \in DOMAIN sizeDict(EDITOR_SIZES)
    /\ call.state.infoSize \in DOMAIN sizeDict(INFO_SIZES)
    /\ call.state.worldSize \in DOMAIN sizeDict(WORLD_SIZES)
    /\ call.state.consoleSize \in DOMAIN sizeDict(CONSOLE_SIZES)
    /\ ~(call.state.editorSize = "Maximized" /\ call.state.consoleSize = "Maximized")

C34_Witness ==
  /\ Maximized("console")
  /\ call.state.editorSize = "Minimized"
  /\ call.state.worldSize = "Partial"

\* ------------------------------------------------ legacy Space (Sim.tsx)
\* Completed loadMeshes calls and rendered frames examined in one behaviour.
MaxLoads == 2
MaxLegacyFrames == 33

TICKS_BETWEEN_ET_SENSOR_UPDATES == 15

\* Motor positions are counted in thousandths of a tick, so that a speed in
\* ticks per second times a frame time in milliseconds is a whole number.
FrameMillis == {16, 33}

\* Values read from the fake ET sensor.
EtSensorValues == {100}

\* The legacy Space after its constructor and createScene: one before-render
\* callback, no after-render callback, no robot.
NewLegacySpace ==
  [ticksSinceETSensorUpdate |-> 0, afterRenderCallbacks |-> 0, bot |-> FALSE]

\* loadMeshes, run to its end: the robot is built and one more after-render
\* callback is registered.
legacyLoadMeshes(s) ==
  [s EXCEPT !.bot = TRUE, !.afterRenderCallbacks = @ + 1]

\* destroyBot: the meshes and the sensors are disposed; no callback is
\* unregistered.
legacyDestroyBot(s) == [s EXCEPT !.bot = FALSE]

\* A before-render callback that publishes only once the counter has passed
\* the period.
legacyBeforeRender_Late(s, robotState, a0) ==
  IF s.ticksSinceETSensorUpdate > TICKS_BETWEEN_ET_SENSOR_UPDATES
    THEN [space |-> [s EXCEPT !.ticksSinceETSensorUpdate = 0],
          robotState |-> [robotState EXCEPT !.analogValues =
                            <<a0, robotState.analogValues[2], 0, 0, 0, 0>>],
          published |-> TRUE]
    ELSE [space |-> [s EXCEPT !.ticksSinceETSensorUpdate = @ + 1],
          robotState |-> robotState,
          published |-> FALSE]

\* The before-render callback: a0 is the value of the fake ET sensor; the
\* arm sensor is absent (analog 1 keeps its value).
legacyBeforeRender(s, robotState, a0) ==
  IF s.ticksSinceETSensorUpdate >= TICKS_BETWEEN_ET_SENSOR_UPDATES
    THEN [space |-> [s EXCEPT !.ticksSinceETSensorUpdate = 0],
          robotState |-> [robotState EXCEPT !.analogValues =
                            <<a0, robotState.analogValues[2], 0, 0, 0, 0>>],
          published |-> TRUE]
    ELSE [space |-> [s EXCEPT !.ticksSinceETSensorUpdate = @ + 1],
          robotState |-> robotState,
          published |-> FALSE]

\* One after-render callback: the motor positions it hands to
\* updateRobotState, from the robot state it read.
legacyAfterRender(robotState, millis) ==
  [robotState EXCEPT !.motorPositions =
     <<robotState.motorPositions[1] + robotState.motorSpeeds[1] * millis, 0, 0,
       robotState.motorPositions[4] + robotState.motorSpeeds[4] * millis>>]

\* The registered after-render callbacks of one frame, in turn.  Each reads
\* the robot state: the one left by the callback before it (fresh) or the
\* one held when the frame began, depending on how the owner serves
\* getRobotState.
RECURSIVE legacyAfterRenders(_, _, _, _, _)
legacyAfterRenders(n, start, current, millis, fresh) ==
  IF n = 0 THEN current
  ELSE legacyAfterRenders(n - 1, start,
                          legacyAfterRender(IF fresh THEN current ELSE start, millis),
                          millis, fresh)

LegacyRobotStates ==
  [motorSpeeds : {<<0, 0, 0, 0>>, <<100, 0, 0, -50>>},
   motorPositions : {<<0, 7, 7, 0>>},
   analogValues : {<<0, 300, 0, 0, 0, 0>>}]

NoFrame == [published |-> FALSE, a0 |-> 0, setDriveMotorsCalls |-> 0,
            millis |-> 0, before |-> <<0, 0, 0, 0>>]

LegacyInit ==
  /\ CoreInit
  /\ \E rs \in LegacyRobotStates :
       call = [fn |-> "LegacySpace", space |-> NewLegacySpace, robotState |-> rs,
               loads |-> 0, frames |-> 0, quiet |-> 0, last |-> NoFrame]

LegacyLoadMeshes ==
  /\ call.fn = "LegacySpace"
  /\ ~call.space.bot
  /\ call.loads < MaxLoads
  /\ call' = [call EXCEPT !.space = legacyLoadMeshes(@), !.loads = @ + 1]
  /\ UNCHANGED <<space, store, live, lifecycle, rig, frame, hist>>

LegacyDestroyBot ==
  /\ call.fn = "LegacySpace"
  /\ call.space.bot
  /\ call' = [call EXCEPT !.space = legacyDestroyBot(@)]
  /\ UNCHANGED <<space, store, live, lifecycle, rig, frame, hist>>

\* scene.render() of a frame: the before-render callback, then every
\* registered after-render callback.  Frames are rendered once the sensors
\* exist.
LegacyFrame ==
  /\ call.fn = "LegacySpace"
  /\ call.loads > 0
  /\ call.frames < MaxLegacyFrames
  /\ \E a0 \in EtSensorValues, millis \in FrameMillis, fresh \in BOOLEAN :
       LET b == legacyBeforeRender(call.space, call.robotState, a0)
           n == call.space.afterRenderCallbacks
       IN call' = [call EXCEPT
                     !.space = b.space,
                     !.robotState = legacyAfterRenders(n, b.robotState, b.robotState,
                                                       millis, fresh),
                     !.frames = @ + 1,
                     !.quiet = IF b.published THEN 0 ELSE @ + 1,
                     !.last = [published |-> b.published,
                               a0 |-> a0,
                               setDriveMotorsCalls |-> n,
                               millis |-> millis,
                               before |-> call.robotState.motorPositions]]
  /\ UNCHANGED <<space, store, live, lifecycle, rig, frame, hist>>

LegacyNext ==
  \/ LegacyLoadMeshes
  \/ LegacyDestroyBot
  \/ LegacyFrame

SpecLegacy == LegacyInit /\ [][LegacyNext]_vars

LegacyRuns == call.fn = "LegacySpace"

\* C35: once loadMeshes has been called, exactly one after-render callback
\* is registered, and a rendered frame sets the drive motors once and
\* advances motor positions 0 and 3 by speed times frame time, once.
C35_OneEncoderUpdatePerFrame ==
  (LegacyRuns /\ call.loads > 0) =>
    /\ call.space.afterRenderCallbacks = 1
    /\ call.last # NoFrame =>
         /\ call.last.setDriveMotorsCalls = 1
         /\ call.robotState.motorPositions[1]
              = call.last.before[1] + call.robotState.motorSpeeds[1] * call.last.millis
         /\ call.robotState.motorPositions[4]
              = call.last.before[4] + call.robotState.motorSpeeds[4] * call.last.millis

====
